---- MODULE Spec2Model ----
(***************************************************************************)
(* A state-machine model of the wl_server runtime: the per-client object   *)
(* tables, the dispatch loop (flush, accept, poll, route, sweep), the      *)
(* built-in wl_display / wl_registry implementations, global registration  *)
(* and the framed transport, at the granularity of 32-bit words and whole  *)
(* frames.                                                                 *)
(***************************************************************************)
EXTENDS Integers, Sequences, FiniteSets, TLC

(***************************************************************************)
(* Bounds of the model.                                                    *)
(***************************************************************************)
MaxClients == 2
MaxFrames == 3
MaxGlobals == 1
\* Number of event frames that fill a client's outbound buffer
\* (DATA_BUFFER_SIZE scaled down to whole frames).
OutCap == 2
\* Clients and frames of the runs that start with the globals registered
MaxPeers == 1
MaxRequests == 3
\* Iterations counted by blocked
MaxBlocked == 3
\* the specification of the sweep: peers and the requests they send
MaxSweepPeers == 2
MaxSweepRequests == 5
\* the specification of a peer that stops reading: peers and their requests
MaxStalledPeers == 2
MaxStalledRequests == 4
\* the specification of the inbound buffer: its capacity in bytes (16 KiB in
\* the code), the peers and the frames they write
InCap == 24
MaxOverflowPeers == 2
MaxOverflowFrames == 4
\* the specification of the reads: how many times the peer writes
MaxWrites == 3
\* the specification of the codec: the words of a payload and its fds
MaxCodecWords == 4
MaxCodecFds == 2
\* the specification of the handlers: peers and the requests they send
MaxHandlerPeers == 2
MaxHandlerRequests == 4
\* the longest identifier the generator is given
MaxIdentLen == 4
\* the specification of the outbound bytes: the capacity of the buffer in
\* bytes (16 KiB in the code) and the events the server sends
OutBufCap == 24
MaxSends == 3

(***************************************************************************)
(* Ids and words.                                                          *)
(***************************************************************************)
\* first id of the server-allocated range.  The range is the top 1/256th of
\* the id space, [0xFF000000, 0xFFFFFFFF] on 32-bit ids; ids are scaled here
\* to 16 bits, which makes it [0xFF00, 0xFFFF]
ServerIdBase == 255 * 256

\* ids a client puts in the new_id argument of sync and of get_registry
SyncIds == {3, ServerIdBase}
RegistryIds == {2, 3}

\* one-word encodings of the interface names a client may put in bind
NameWord(name) ==
    CASE name = "wl_output" -> 11
      [] name = "wl_compositor" -> 12
      [] OTHER -> 19

WordName(w) ==
    CASE w = 11 -> "wl_output"
      [] w = 12 -> "wl_compositor"
      [] OTHER -> "unknown"

ANONYMOUS_NAME == "anonymous"

\* the largest serial (u32::MAX, scaled to 7 bits)
SerialMax == 127

\* how many times a read tries to receive before it gives up
RECV_TRIES == 2

\* how many times a flush calls sendmsg
FLUSH_TRIES == 2

\* the fds a MessageBuffer queues
FD_BUFFER_SIZE == 16

(***************************************************************************)
(* Protocol registry: the request schemas of the compiled-in interfaces.   *)
(***************************************************************************)
ArgNewId(i) == [arg_type |-> "new_id", interface |-> i, allow_null |-> FALSE]
ArgOf(t) == [arg_type |-> t, interface |-> "none", allow_null |-> FALSE]

\* wl_display: sync(callback: new_id wl_callback),
\* get_registry(registry: new_id wl_registry)
WlDisplayRequests == << <<ArgNewId("wl_callback")>>, <<ArgNewId("wl_registry")>> >>

\* the interfaces generated from the protocol description:
\* wl_registry.bind(name: uint, id: new_id without interface),
\* wl_output.release(), wl_compositor.create_surface(id: new_id wl_surface),
\* wl_compositor.create_region(id: new_id wl_region),
\* wl_shm.create_pool(id: new_id wl_shm_pool, fd: fd, size: int); wl_callback
\* has no requests, and requests of the child interfaces are not modelled
ProtocolRequests(interface) ==
    CASE interface = "wl_registry" -> << <<ArgOf("uint"), ArgNewId("none")>> >>
      [] interface = "wl_output" -> << <<>> >>
      [] interface = "wl_compositor" ->
            << <<ArgNewId("wl_surface")>>, <<ArgNewId("wl_region")>> >>
      [] interface = "wl_shm" -> << <<ArgNewId("wl_shm_pool"), ArgOf("fd"), ArgOf("int")>> >>
      [] OTHER -> << >>

\* DynInterface.requests
Requests(interface) ==
    IF interface = "wl_display" THEN WlDisplayRequests ELSE ProtocolRequests(interface)

\* interfaces that declare at least one event
HasEvents(interface) ==
    interface \in {"wl_display", "wl_registry", "wl_callback", "wl_output", "wl_surface"}

GlobalInterfaces == {"wl_output", "wl_compositor"}

(***************************************************************************)
(* Wire codec: RawMessageReader over a payload of 32-bit words.            *)
(***************************************************************************)
PadWords(len) == (len + 3) \div 4

\* next_array: a length word followed by the padded contents
ArrayEnd(payload, pos) == pos + 1 + PadWords(payload[pos])

RECURSIVE parse_from(_, _, _, _)
parse_from(args_desc, payload, pos, acc) ==
    IF args_desc = <<>> THEN [ok |-> TRUE, args |-> acc]
    ELSE
      LET d == Head(args_desc)
          rest == Tail(args_desc)
      IN
      IF d.arg_type \in {"int", "uint", "fixed"} THEN
          IF pos > Len(payload) THEN [ok |-> FALSE, args |-> acc]
          ELSE parse_from(rest, payload, pos + 1,
                          Append(acc, [t |-> d.arg_type, v |-> payload[pos], name |-> "none"]))
      ELSE IF d.arg_type = "object" THEN
          IF pos > Len(payload) THEN [ok |-> FALSE, args |-> acc]
          ELSE parse_from(rest, payload, pos + 1,
                          Append(acc, [t |-> "object", v |-> payload[pos], name |-> d.interface]))
      ELSE IF d.arg_type = "new_id" /\ d.interface # "none" THEN
          IF pos > Len(payload) THEN [ok |-> FALSE, args |-> acc]
          ELSE parse_from(rest, payload, pos + 1,
                          Append(acc, [t |-> "new_id", v |-> payload[pos], name |-> d.interface]))
      ELSE IF d.arg_type = "new_id" THEN
          \* next_new_id_anonymous: string name, uint version, uint id
          IF pos > Len(payload) \/ ArrayEnd(payload, pos) + 1 > Len(payload)
          THEN [ok |-> FALSE, args |-> acc]
          ELSE parse_from(rest, payload, ArrayEnd(payload, pos) + 2,
                          Append(acc, [t |-> "new_id_dyn",
                                       v |-> payload[ArrayEnd(payload, pos) + 1],
                                       name |-> WordName(payload[pos + 1])]))
      ELSE [ok |-> FALSE, args |-> acc]

parse_dyn_args(args_desc, payload) == parse_from(args_desc, payload, 1, <<>>)

(***************************************************************************)
(* Sequence helpers.                                                       *)
(***************************************************************************)
RemoveAt(seq, i) == SubSeq(seq, 1, i - 1) \o SubSeq(seq, i + 1, Len(seq))

\* Iterator::position: index of the first element satisfying Test, 0 if none
Position(seq, Test(_)) ==
    LET S == {i \in 1..Len(seq) : Test(seq[i])}
    IN IF S = {} THEN 0 ELSE CHOOSE i \in S : \A j \in S : i <= j

(***************************************************************************)
(* Object table.                                                           *)
(***************************************************************************)
\* Object::new: typed object with the null dispatcher; data is the type of
\* the boxed user data, () at first
Object_new(uid, id, interface) ==
    [uid |-> uid, id |-> id, interface |-> interface, dispatcher |-> "null",
     data |-> "unit", destroyed |-> FALSE, destroy |-> FALSE]

\* Object::new_untyped: anonymous interface, no dispatcher
Object_new_untyped(uid, id) ==
    [uid |-> uid, id |-> id, interface |-> ANONYMOUS_NAME, dispatcher |-> "none",
     data |-> "unit", destroyed |-> FALSE, destroy |-> FALSE]

ObjectMap_add(objects, object) == Append(objects, object)

ObjectMap_find_by_id(objects, id) == Position(objects, LAMBDA o : o.id = id)

ObjectMap_find_by_uid(objects, uid) == Position(objects, LAMBDA o : o.uid = uid)

ObjectMap_next_pending_destroy(objects) == Position(objects, LAMBDA o : o.destroy)

(***************************************************************************)
(* Framed transport, outbound side.  socket is what has been written to    *)
(* the peer, out_buffer what is still queued; writable tells whether       *)
(* sendmsg currently accepts data (otherwise it returns EAGAIN).           *)
(***************************************************************************)
\* MessageBuffer::append
MessageBuffer_append(c, data) ==
    IF Len(c.out_buffer) + Len(data) > OutCap
    THEN [c |-> [c EXCEPT !.dropped = TRUE], ok |-> FALSE]
    ELSE [c |-> [c EXCEPT !.out_buffer = @ \o data], ok |-> TRUE]

\* NetClient::try_send_data
try_send_data(c, data) ==
    IF c.writable
    THEN [c |-> [c EXCEPT !.socket = @ \o data], ok |-> TRUE]
    ELSE MessageBuffer_append(c, data)

\* NetClient::flush: the client after the call and the returned flag
flush(c) ==
    IF c.out_buffer = <<>> THEN [c |-> c, flushed |-> TRUE]
    ELSE IF c.writable
         THEN [c |-> [c EXCEPT !.socket = @ \o c.out_buffer, !.out_buffer = <<>>],
               flushed |-> TRUE]
         ELSE [c |-> c, flushed |-> FALSE]

\* NetClient::try_send_message
try_send_message(c, message) ==
    LET f == flush(c)
    IN IF f.flushed THEN try_send_data(f.c, <<message>>)
       ELSE MessageBuffer_append(f.c, <<message>>)

\* ClientManager::flush_clients: `flushed && flush()` stops calling flush
\* once one client could not be drained
RECURSIVE flush_clients_from(_, _, _)
flush_clients_from(cs, i, flushed) ==
    IF i > Len(cs) THEN cs
    ELSE IF flushed
         THEN LET f == flush(cs[i])
              IN flush_clients_from([cs EXCEPT ![i] = f.c], i + 1, f.flushed)
         ELSE flush_clients_from(cs, i + 1, FALSE)

flush_clients(cs) == flush_clients_from(cs, 1, TRUE)

(***************************************************************************)
(* User implementations.  A global's constructor installs one of these on  *)
(* every object it is bound to; a script is the sequence of calls the      *)
(* handler makes on its resources.                                         *)
(***************************************************************************)
UserImpls == {"selfdestroy", "reaper", "factory", "linked",
              "notifier", "keeper", "untyped", "faulty", "seeker"}

HandleScript(impl) ==
    CASE impl = "selfdestroy" -> <<"destroy", "event", "destroy">>
      [] impl = "reaper" -> <<"destroy_new", "destroy_new">>
      [] impl = "factory" -> <<"register_new", "destroy_new">>
      [] impl = "notifier" -> <<"event">>
      [] impl = "keeper" -> <<"kept_destroy", "kept_event", "kept_get_data", "destroy_new">>
      [] impl = "untyped" -> <<"get_data", "get_data_untyped">>
      [] impl = "faulty" -> <<"panic">>
      [] impl = "seeker" -> <<"find", "destroy">>
      [] OTHER -> <<>>

DestructorScript(impl) ==
    CASE impl = "selfdestroy" -> <<"event">>
      [] impl = "linked" -> <<"destroy_peers">>
      [] impl = "seeker" -> <<"find">>
      [] OTHER -> <<>>

\* a script that sends events needs an interface that declares events
ImplFits(interface, impl) ==
    \/ HasEvents(interface)
    \/ \A i \in 1..Len(HandleScript(impl) \o DestructorScript(impl)) :
          (HandleScript(impl) \o DestructorScript(impl))[i] # "event"

(***************************************************************************)
(* Operations on the server state s = [clients, globals, objlog, calls,    *)
(* panic].                                                                 *)
(* objlog[uid] is the history of the object record uid: its client, its    *)
(* id, how often destroy() was called on it, how often its destructor      *)
(* handler ran and whether it was freed.                                   *)
(* calls lists the invocations of global constructors.                     *)
(***************************************************************************)
\* an event on the wire: sender and arg are what the client reads; suid is the
\* record that sent it and about the record a delete_id reports (0 otherwise)
Event(sender, suid, ev, arg, about) ==
    [sender |-> sender, suid |-> suid, ev |-> ev, arg |-> arg, about |-> about]

\* Resource::send_event / try_send_event / Client::try_send_event
send_event_about(s, ci, uid, ev, arg, about) ==
    IF s.objlog[uid].freed THEN s
    ELSE [s EXCEPT !.clients[ci] =
             try_send_message(@, Event(s.objlog[uid].id, uid, ev, arg, about)).c]

send_event(s, ci, uid, ev, arg) == send_event_about(s, ci, uid, ev, arg, 0)

\* Resource::destroy that reports the deletion at once instead of leaving it
\* to the destroy step that follows the handler
Resource_destroy_eager(s, ci, uid) ==
    LET p == ObjectMap_find_by_uid(s.clients[ci].objects, uid)
    IN IF p = 0 THEN s
       ELSE send_event_about([s EXCEPT !.clients[ci].objects[p].destroy = TRUE,
                                       !.objlog[uid].destroys = @ + 1], ci,
                             s.clients[ci].display, "delete_id", s.objlog[uid].id, uid)

\* Resource::destroy
Resource_destroy(s, ci, uid) ==
    LET p == ObjectMap_find_by_uid(s.clients[ci].objects, uid)
    IN IF p = 0 THEN s
       ELSE [s EXCEPT !.clients[ci].objects[p].destroy = TRUE,
                      !.objlog[uid].destroys = @ + 1]

\* ClientMap::add_new_id
add_new_id(s, ci, id, interface) ==
    LET uid == Len(s.objlog) + 1
    IN [s EXCEPT !.clients[ci].objects = ObjectMap_add(@, Object_new(uid, id, interface)),
                 !.objlog = Append(@, [cid |-> s.clients[ci].cid, id |-> id,
                                       dtor |-> 0, freed |-> FALSE, intable |-> FALSE,
                                       handler |-> FALSE, destroys |-> 0])]

\* ClientMap::add_new_id_untyped
add_new_id_untyped(s, ci, id) ==
    LET uid == Len(s.objlog) + 1
    IN [s EXCEPT !.clients[ci].objects = ObjectMap_add(@, Object_new_untyped(uid, id)),
                 !.objlog = Append(@, [cid |-> s.clients[ci].cid, id |-> id,
                                       dtor |-> 0, freed |-> FALSE, intable |-> FALSE,
                                       handler |-> FALSE, destroys |-> 0])]

\* the interface of an object created by a dynamic new_id is fixed from the
\* interface title carried in the request
fix_interface(s, ci, uid, name) ==
    LET p == ObjectMap_find_by_uid(s.clients[ci].objects, uid)
    IN IF name \in GlobalInterfaces
       THEN [s EXCEPT !.clients[ci].objects[p].interface = name]
       ELSE s

\* NewResource::register / register_fn: the built-in implementations
\* register (), the compositor's handlers their own data type
register(s, ci, uid, impl) ==
    LET p == ObjectMap_find_by_uid(s.clients[ci].objects, uid)
    IN IF p = 0 THEN s
       ELSE [s EXCEPT !.clients[ci].objects[p].dispatcher = impl,
                      !.clients[ci].objects[p].data =
                          IF impl \in UserImpls THEN "UserData" ELSE "unit"]

\* Resource<I, T>::get_data: expect("Object was destroyed") on a dead handle,
\* expect("Data type mismatch") when the boxed data is not an Owner<T>
Resource_get_data(s, ci, uid, T) ==
    LET p == ObjectMap_find_by_uid(s.clients[ci].objects, uid)
    IN IF s.objlog[uid].freed THEN [s EXCEPT !.panic = "Object was destroyed"]
       ELSE IF p # 0 /\ s.clients[ci].objects[p].data # T
            THEN [s EXCEPT !.panic = "Data type mismatch"]
            ELSE s

\* the resource the compositor kept of the last object it destroyed that is
\* gone by now, 0 if there is none
Kept(s) ==
    LET gone == {uid \in DOMAIN s.objlog : s.objlog[uid].freed /\ s.objlog[uid].destroys > 0}
    IN IF gone = {} THEN 0 ELSE CHOOSE uid \in gone : \A v \in gone : v <= uid

\* from_args of the generated request types: every new_id argument inserts
\* its object, in schema order
RECURSIVE from_args(_, _, _)
from_args(s, ci, args) ==
    IF args = <<>> THEN s
    ELSE LET a == Head(args)
             uid == Len(s.objlog) + 1
         IN IF a.t = "new_id" THEN from_args(add_new_id(s, ci, a.v, a.name), ci, Tail(args))
            ELSE IF a.t = "new_id_dyn"
                 THEN from_args(fix_interface(add_new_id_untyped(s, ci, a.v), ci, uid, a.name),
                                ci, Tail(args))
                 ELSE from_args(s, ci, Tail(args))

\* destroy() on every resource with a "factory" handler that the compositor
\* keeps in its state, whatever client it belongs to
RECURSIVE destroy_peers(_, _, _)
destroy_peers(s, cj, p) ==
    IF cj > Len(s.clients) THEN s
    ELSE IF p > Len(s.clients[cj].objects) THEN destroy_peers(s, cj + 1, 1)
    ELSE IF s.clients[cj].objects[p].dispatcher = "factory"
         THEN destroy_peers(Resource_destroy(s, cj, s.clients[cj].objects[p].uid), cj, p + 1)
         ELSE destroy_peers(s, cj, p + 1)

\* Client::find_untyped behind find_by_id: objects.borrow() panics while the
\* table is mutably borrowed
Client_find(s, ci) ==
    IF s.clients[ci].borrowed THEN [s EXCEPT !.panic = "already mutably borrowed"] ELSE s

\* the handler's calls, in order; new is the record the request created
RECURSIVE RunScript(_, _, _, _, _)
RunScript(s, ci, uid, new, script) ==
    IF script = <<>> \/ s.panic # "none" THEN s
    ELSE LET op == Head(script)
             s1 == CASE op = "destroy" -> Resource_destroy(s, ci, uid)
                     [] op = "event" -> send_event(s, ci, uid, "user", 0)
                     [] op = "destroy_new" -> Resource_destroy(s, ci, new)
                     [] op = "register_new" -> register(s, ci, new, "linked")
                     [] op = "destroy_peers" -> destroy_peers(s, 1, 1)
                     [] op = "get_data" -> Resource_get_data(s, ci, uid, "UserData")
                     [] op = "get_data_untyped" -> Resource_get_data(s, ci, uid, "Untyped")
                     [] op = "panic" -> [s EXCEPT !.panic = "handler"]
                     [] op = "find" -> Client_find(s, ci)
                     [] op = "kept_destroy" /\ Kept(s) # 0 -> Resource_destroy(s, ci, Kept(s))
                     [] op = "kept_event" /\ Kept(s) # 0 ->
                            send_event(s, ci, Kept(s), "user", 0)
                     [] op = "kept_get_data" /\ Kept(s) # 0 ->
                            Resource_get_data(s, ci, Kept(s), "UserData")
                     [] OTHER -> s
         IN RunScript(s1, ci, uid, new, Tail(script))

\* Client::advertise_global_dyn
advertise_global_dyn(s, ci, name, interface) ==
    IF s.clients[ci].registry # 0
    THEN send_event(s, ci, s.clients[ci].registry, "global", name)
    ELSE s

\* Client::advertise_current_globals
RECURSIVE advertise_from(_, _, _)
advertise_from(s, ci, i) ==
    IF i > Len(s.globals) THEN s
    ELSE advertise_from(advertise_global_dyn(s, ci, s.globals[i].name, s.globals[i].interface),
                        ci, i + 1)

advertise_current_globals(s, ci) == advertise_from(s, ci, 1)

\* NewResource::downcast
NewResource_downcast(s, ci, uid, interface) ==
    LET p == ObjectMap_find_by_uid(s.clients[ci].objects, uid)
    IN p # 0 /\ s.clients[ci].objects[p].interface = interface

\* GlobalManager::bind_global with GlobalDispatcher::dispatch
bind_global(s, ci, name, uid) ==
    LET g == Position(s.globals, LAMBDA x : x.name = name)
    IN IF g = 0 THEN s
       ELSE IF NewResource_downcast(s, ci, uid, s.globals[g].interface)
            THEN [register(s, ci, uid, s.globals[g].impl)
                    EXCEPT !.calls = Append(@, [name |-> name, uid |-> uid])]
            ELSE s

(***************************************************************************)
(* Destruction.                                                            *)
(***************************************************************************)
\* the record leaves memory (its Owner is dropped)
Free(s, object) ==
    [s EXCEPT !.objlog[object.uid].freed = TRUE,
              !.objlog[object.uid].handler = (object.dispatcher # "none")]

\* the end of Dispatcher::dispatch_destructor: destroyed = true once the
\* implementation's destructor has returned
set_destroyed(s, ci, uid) ==
    LET q == ObjectMap_find_by_uid(s.clients[ci].objects, uid)
    IN IF q = 0 \/ s.panic # "none" THEN s
       ELSE [s EXCEPT !.clients[ci].objects[q].destroyed = TRUE]

\* Dispatcher::dispatch_destructor behind Server::run_object_destructor;
\* object is the record as the caller holds it (in the table or taken out)
run_object_destructor(s, ci, object) ==
    LET p == ObjectMap_find_by_uid(s.clients[ci].objects, object.uid)
        destroyed == IF p = 0 THEN object.destroyed ELSE s.clients[ci].objects[p].destroyed
    IN IF object.dispatcher = "none" \/ destroyed THEN s
       ELSE set_destroyed(RunScript([s EXCEPT !.objlog[object.uid].dtor = @ + 1,
                                              !.objlog[object.uid].intable = (p # 0)],
                                    ci, object.uid, 0, DestructorScript(object.dispatcher)),
                          ci, object.uid)

\* Client::remove_object: take the record out of the table, then send
\* wl_display.delete_id through the client's display resource
remove_object(s, ci, uid) ==
    LET p == ObjectMap_find_by_uid(s.clients[ci].objects, uid)
        id == s.objlog[uid].id
        s1 == IF p = 0 THEN s ELSE [s EXCEPT !.clients[ci].objects = RemoveAt(@, p)]
        s2 == send_event_about(s1, ci, s1.clients[ci].display, "delete_id", id, uid)
    IN IF p = 0 THEN s2 ELSE Free(s2, s.clients[ci].objects[p])

\* the call of Client::remove_object in Server::destroy_object, not reached
\* when the destructor panicked
remove_destroyed(s, ci, uid) ==
    IF s.panic # "none" THEN s ELSE remove_object(s, ci, uid)

\* Server::destroy_object
destroy_object(s, ci, uid) ==
    LET p == ObjectMap_find_by_uid(s.clients[ci].objects, uid)
    IN remove_destroyed(run_object_destructor(s, ci, s.clients[ci].objects[p]), ci, uid)

\* the end of one turn of `while let Some(object) = client.objects.borrow_mut()...`:
\* the RefMut of the table, held through the body of the loop, is dropped
released(s, ci) == [s EXCEPT !.clients[ci].borrowed = FALSE]

\* the inner loop of Server::destroy_pending for one client
RECURSIVE sweep_client(_, _)
sweep_client(s, ci) ==
    LET objects == s.clients[ci].objects
        p == ObjectMap_next_pending_destroy(objects)
    IN IF p = 0 \/ s.panic # "none" THEN s
       ELSE LET s1 == [s EXCEPT !.clients[ci].objects = RemoveAt(@, p),
                                 !.clients[ci].borrowed = TRUE]
                s2 == run_object_destructor(s1, ci, objects[p])
            IN sweep_client(released(Free(s2, objects[p]), ci), ci)

\* Server::destroy_pending
RECURSIVE destroy_pending_from(_, _)
destroy_pending_from(s, i) ==
    IF i > Len(s.clients) \/ s.panic # "none" THEN s
    ELSE destroy_pending_from(sweep_client(s, i), i + 1)

destroy_pending(s) == destroy_pending_from(s, 1)

\* the loop of Server::cleanup_client: ObjectMap::remove_any pops the last
RECURSIVE cleanup_objects(_, _)
cleanup_objects(s, ci) ==
    LET objects == s.clients[ci].objects
        n == Len(objects)
    IN IF n = 0 \/ s.panic # "none" THEN s
       ELSE LET s1 == [s EXCEPT !.clients[ci].objects = SubSeq(@, 1, n - 1),
                                 !.clients[ci].borrowed = TRUE]
                s2 == run_object_destructor(s1, ci, objects[n])
            IN cleanup_objects(released(Free(s2, objects[n]), ci), ci)

\* ClientManager::remove_client, not reached when a destructor panicked
remove_client(s, ci) ==
    IF s.panic # "none" THEN s ELSE [s EXCEPT !.clients = RemoveAt(@, ci)]

\* Server::cleanup_client
cleanup_client(s, ci) == remove_client(cleanup_objects(s, ci), ci)

(***************************************************************************)
(* Request handlers.                                                       *)
(***************************************************************************)
\* uid of the object the k-th new_id argument of the request created; the
\* request's objects are the last ones entered in objlog
NewUid(s0, k) == Len(s0.objlog) + k

\* WlDisplayImplementation::handle; s0 is the state before from_args
WlDisplay_handle(s0, s, ci, opcode) ==
    IF opcode = 0
    THEN \* Sync
         send_event(register(s, ci, NewUid(s0, 1), "callback_fn"),
                    ci, NewUid(s0, 1), "done", 1)
    ELSE \* GetRegistry
         advertise_current_globals(
            [register(s, ci, NewUid(s0, 1), "WlRegistryImplementation")
                EXCEPT !.clients[ci].registry = NewUid(s0, 1)], ci)

\* WlRegistryImplementation::handle (Bind)
WlRegistry_handle(s0, s, ci, args) == bind_global(s, ci, args[1].v, NewUid(s0, 1))

\* RawObjectImplementationConcrete::dispatch
implementation_dispatch(s, ci, object, opcode, args) ==
    LET s1 == from_args(s, ci, args)
    IN CASE object.dispatcher = "WlDisplayImplementation" -> WlDisplay_handle(s, s1, ci, opcode)
         [] object.dispatcher = "WlRegistryImplementation" -> WlRegistry_handle(s, s1, ci, args)
         [] object.dispatcher \in UserImpls ->
                RunScript(s1, ci, object.uid, NewUid(s, 1), HandleScript(object.dispatcher))
         [] OTHER -> s1

\* Dispatcher::dispatch
Dispatcher_dispatch(s, ci, object, opcode, args) ==
    IF object.destroyed THEN s
    ELSE implementation_dispatch(s, ci, object, opcode, args)

\* the end of Server::handle_client_message, after the dispatcher returned:
\* the object is destroyed if it was marked
dispatched(s, ci, uid) ==
    LET q == ObjectMap_find_by_uid(s.clients[ci].objects, uid)
    IN IF s.panic # "none" THEN [s |-> s, ok |-> FALSE]
       ELSE IF s.clients[ci].objects[q].destroy
            THEN [s |-> destroy_object(s, ci, uid), ok |-> TRUE]
            ELSE [s |-> s, ok |-> TRUE]

\* Server::handle_client_message; the result says whether it returned Ok;
\* rejected records that a request of the client failed to parse
handle_client_message(s, ci, raw) ==
    LET objects == s.clients[ci].objects
        p == ObjectMap_find_by_id(objects, raw.sender)
        object == objects[p]
        parsed == parse_dyn_args(Requests(object.interface)[raw.opcode + 1], raw.payload)
    IN IF p = 0 THEN [s |-> s, ok |-> FALSE]
       ELSE IF ~parsed.ok THEN [s |-> [s EXCEPT !.clients[ci].rejected = TRUE], ok |-> FALSE]
       ELSE dispatched(IF object.dispatcher # "none"
                       THEN Dispatcher_dispatch(s, ci, object, raw.opcode, parsed.args)
                       ELSE s,
                       ci, object.uid)

(***************************************************************************)
(* Framed transport, inbound side, and the poll step.                      *)
(***************************************************************************)
Frame(sender, opcode, payload) ==
    [sender |-> sender, opcode |-> opcode, msg_size |-> 8 + 4 * Len(payload),
     payload |-> payload]

\* the bytes a frame takes in the buffer: what the peer wrote of it
FrameBytes(frame) == 8 + 4 * Len(frame.payload)

\* MessageBuffer::data_len of the inbound buffer
RECURSIVE BufferedBytes(_)
BufferedBytes(frames) ==
    IF frames = <<>> THEN 0 ELSE FrameBytes(Head(frames)) + BufferedBytes(Tail(frames))

\* NetClient::try_read_message on the frame at the head of in_buffer:
\* "none", "error" (InvalidMessage, InsufficientData), "message", or the
\* index that panics: "opcode" (requests[opcode]) or "size" (data[8..])
try_read_message(c) ==
    IF c.in_buffer = <<>> THEN "none"
    ELSE LET header == Head(c.in_buffer)
             p == ObjectMap_find_by_id(c.objects, header.sender)
         IN IF p = 0 THEN "error"
            ELSE IF header.opcode + 1 > Len(Requests(c.objects[p].interface)) THEN "opcode"
            ELSE IF header.msg_size > BufferedBytes(c.in_buffer) THEN "error"
            ELSE IF header.msg_size < 8 THEN "size"
            ELSE "message"

\* NetServer::poll_clients: the first client event, in client-list order.
\* hup and pollin are POLLHUP and POLLIN in the revents of a socket whose
\* peer hung up
RECURSIVE poll_from(_, _)
poll_from(cs, i) ==
    IF i > Len(cs) THEN [kind |-> "none", ci |-> 0, why |-> "none"]
    ELSE IF cs[i].pollin /\ cs[i].hup
         THEN [kind |-> "disconnected", ci |-> i, why |-> "none"]
    ELSE IF try_read_message(cs[i]) = "none" THEN poll_from(cs, i + 1)
    ELSE IF try_read_message(cs[i]) \in {"opcode", "size"}
         THEN [kind |-> "panic", ci |-> i, why |-> try_read_message(cs[i])]
         ELSE [kind |-> try_read_message(cs[i]), ci |-> i, why |-> "none"]

poll_clients(cs) == poll_from(cs, 1)

(***************************************************************************)
(* Framed transport, inbound side, byte by byte.  A buffer is the sequence *)
(* of its data_len buffered bytes and the queue of its fds; the socket is  *)
(* the queue of what the peer wrote and the server did not receive yet,    *)
(* one entry per sendmsg of the peer.                                      *)
(***************************************************************************)
\* byteorder's read_u16 / read_u32 with NativeEndian, on a little-endian build
read_u16(bytes, at) == bytes[at] + 256 * bytes[at + 1]
read_u32(bytes, at) == read_u16(bytes, at) + 65536 * read_u16(bytes, at + 2)

\* byteorder's write_u16 / write_u32
write_u16(v) == <<v % 256, v \div 256>>
write_u32(v) == write_u16(v % 65536) \o write_u16(v \div 65536)

\* MessageHeader::from_bytes
MessageHeader_from_bytes(bytes) ==
    [sender |-> read_u32(bytes, 1), opcode |-> read_u16(bytes, 5),
     msg_size |-> read_u16(bytes, 7)]

\* MessageBuffer::new
MessageBuffer_new == [data |-> <<>>, fds |-> <<>>]

\* the fds taken by the mutated advance: the whole queue
MessageBuffer_advance_all_fds(buf, data_len, fd_count) ==
    [buf |-> [data |-> SubSeq(buf.data, data_len + 1, Len(buf.data)), fds |-> <<>>],
     data |-> SubSeq(buf.data, 1, data_len),
     fds |-> buf.fds]

\* MessageBuffer::advance: split the first data_len bytes and the first
\* fd_count fds off the buffer
MessageBuffer_advance(buf, data_len, fd_count) ==
    [buf |-> [data |-> SubSeq(buf.data, data_len + 1, Len(buf.data)),
              fds |-> SubSeq(buf.fds, fd_count + 1, Len(buf.fds))],
     data |-> SubSeq(buf.data, 1, data_len),
     fds |-> SubSeq(buf.fds, 1, fd_count)]

\* NetClient::try_fill_buffer: one recvmsg into in_buffer.data[data_len..];
\* the fds of a sendmsg arrive with its first byte
try_fill_buffer(nc) ==
    IF nc.socket = <<>> THEN nc
    ELSE LET chunk == Head(nc.socket)
             room == InCap - Len(nc.in_buffer.data)
             k == IF Len(chunk.data) <= room THEN Len(chunk.data) ELSE room
             left == [data |-> SubSeq(chunk.data, k + 1, Len(chunk.data)), fds |-> <<>>]
         IN IF k = 0 THEN nc
            ELSE [nc EXCEPT !.in_buffer.data = @ \o SubSeq(chunk.data, 1, k),
                            !.in_buffer.fds = @ \o chunk.fds,
                            !.socket = IF k = Len(chunk.data) THEN Tail(@)
                                       ELSE <<left>> \o Tail(@)]

\* NetClient::try_fill_buffer_until
RECURSIVE try_fill_buffer_until(_, _, _, _)
try_fill_buffer_until(nc, data_len, fd_count, tries) ==
    IF tries = 0
    THEN [nc |-> nc, ok |-> Len(nc.in_buffer.data) >= data_len
                            /\ Len(nc.in_buffer.fds) >= fd_count]
    ELSE LET filled == try_fill_buffer(nc)
         IN IF Len(filled.in_buffer.data) >= data_len /\ Len(filled.in_buffer.fds) >= fd_count
            THEN [nc |-> filled, ok |-> TRUE]
            ELSE try_fill_buffer_until(filled, data_len, fd_count, tries - 1)

\* the number of fd arguments of a request
RECURSIVE expected_fds(_)
expected_fds(args_desc) ==
    IF args_desc = <<>> THEN 0
    ELSE (IF Head(args_desc).arg_type = "fd" THEN 1 ELSE 0) + expected_fds(Tail(args_desc))

\* what a read leaves behind when it returns no message
NoRead == [kind |-> "none", header |-> <<>>, data |-> <<>>, fds |-> <<>>,
           at |-> MessageBuffer_new]

\* NetClient::try_read_message over the bytes: the connection after the
\* call and what the call returned: kind is "none" (Ok(None)), "message",
\* "InvalidMessage", "InsufficientData", or "opcode" / "size" for the index
\* that panics; at is the buffer as advance found it
NetClient_try_read_message(nc, objects) ==
    LET first == try_fill_buffer_until(nc, 8, 0, RECV_TRIES)
        header == MessageHeader_from_bytes(SubSeq(first.nc.in_buffer.data, 1, 8))
        p == ObjectMap_find_by_id(objects, header.sender)
        requests == Requests(objects[p].interface)
        fd_count == expected_fds(requests[header.opcode + 1])
        rest == try_fill_buffer_until(first.nc, header.msg_size, fd_count, RECV_TRIES)
        adv == MessageBuffer_advance(rest.nc.in_buffer, header.msg_size, fd_count)
    IN IF ~first.ok THEN [nc |-> first.nc, last |-> NoRead]
       ELSE IF p = 0 THEN [nc |-> first.nc, last |-> [NoRead EXCEPT !.kind = "InvalidMessage"]]
       ELSE IF header.opcode + 1 > Len(requests)
            THEN [nc |-> first.nc, last |-> [NoRead EXCEPT !.kind = "opcode"]]
       ELSE IF ~rest.ok
            THEN [nc |-> rest.nc, last |-> [NoRead EXCEPT !.kind = "InsufficientData"]]
       ELSE IF header.msg_size < 8
            THEN [nc |-> [rest.nc EXCEPT !.in_buffer = adv.buf],
                  last |-> [NoRead EXCEPT !.kind = "size"]]
       ELSE [nc |-> [rest.nc EXCEPT !.in_buffer = adv.buf],
             last |-> [kind |-> "message", header |-> header,
                       data |-> SubSeq(adv.data, 9, Len(adv.data)),
                       fds |-> adv.fds, at |-> rest.nc.in_buffer]]

(***************************************************************************)
(* Wire codec over bytes: RawMessageReader and                             *)
(* DynMessage::serialize_raw_args.  A DynArgument is a record: t is its    *)
(* variant, v its number, some tells Some from None, bytes holds the       *)
(* contents of a string or an array or the name of an interface title,     *)
(* version the version of the title.                                       *)
(***************************************************************************)
\* byteorder's read_i32 / write_i32
read_i32(bytes, at) ==
    LET hi == read_u16(bytes, at + 2)
    IN read_u16(bytes, at) + 65536 * (IF hi >= 32768 THEN hi - 65536 ELSE hi)

write_i32(v) == write_u16(v % 65536) \o write_u16((v \div 65536) % 65536)

\* the largest length write_array accepts (u32::MAX, scaled to 8 bits) and
\* the largest msg_size (u16::MAX, scaled to 6 bits)
ArrayLenMax == 255
MsgSizeMax == 63

DynArgument(t, v, some, bytes, version) ==
    [t |-> t, v |-> v, some |-> some, bytes |-> bytes, version |-> version]

\* the padding that follows len bytes of contents
Padding(len) == (4 - (len % 4)) % 4

\* a reader is the cursor of RawMessageReader with what parse_dyn_args has
\* pushed so far: pos is the next byte of data, next_fd counts the fds taken;
\* kind is "ok", an error or "panic"; padded tells whether every padding
\* byte read so far was zero
RawMessageReader_new ==
    [kind |-> "ok", args |-> <<>>, pos |-> 1, next_fd |-> 0, padded |-> TRUE]

\* RawMessageReader::next_uint and the like: four bytes are left to read
HasWord(data, pos) == pos + 3 <= Len(data)

\* RawMessageReader::next_array reads the length, the contents and the
\* padding without running out of data
HasArray(data, pos) ==
    /\ HasWord(data, pos)
    /\ pos + 3 + read_u32(data, pos) + Padding(read_u32(data, pos)) <= Len(data)

ArrayContents(data, pos) == SubSeq(data, pos + 4, pos + 3 + read_u32(data, pos))

AfterArray(data, pos) == pos + 4 + read_u32(data, pos) + Padding(read_u32(data, pos))

ZeroPadded(data, pos) ==
    \A i \in (pos + 4 + read_u32(data, pos))..(AfterArray(data, pos) - 1) : data[i] = 0

\* String::from_utf8 returns Ok: the bytes from i on are well-formed UTF-8
RECURSIVE from_utf8(_, _)
from_utf8(bytes, i) ==
    LET b == bytes[i]
        cont(k, lo, hi) == i + k <= Len(bytes) /\ bytes[i + k] \in lo..hi
    IN IF i > Len(bytes) THEN TRUE
       ELSE IF b < 128 THEN from_utf8(bytes, i + 1)
       ELSE IF b \in 194..223 THEN cont(1, 128, 191) /\ from_utf8(bytes, i + 2)
       ELSE IF b \in 224..239
            THEN /\ cont(1, IF b = 224 THEN 160 ELSE 128, IF b = 237 THEN 159 ELSE 191)
                 /\ cont(2, 128, 191)
                 /\ from_utf8(bytes, i + 3)
       ELSE IF b \in 240..244
            THEN /\ cont(1, IF b = 240 THEN 144 ELSE 128, IF b = 244 THEN 143 ELSE 191)
                 /\ cont(2, 128, 191)
                 /\ cont(3, 128, 191)
                 /\ from_utf8(bytes, i + 4)
       ELSE FALSE

\* one iteration of the loop of DynMessage::parse_dyn_args
parse_arg(d, data, fds, r) ==
    LET pos == r.pos
        push(arg, next) == [r EXCEPT !.args = Append(@, arg), !.pos = next]
        io == [r EXCEPT !.kind = "IoError"]
    IN CASE d.arg_type = "int" ->
              IF HasWord(data, pos)
              THEN push(DynArgument("int", read_i32(data, pos), TRUE, <<>>, 0), pos + 4)
              ELSE io
         [] d.arg_type \in {"uint", "fixed"} ->
              IF HasWord(data, pos)
              THEN push(DynArgument(d.arg_type, read_u32(data, pos), TRUE, <<>>, 0), pos + 4)
              ELSE io
         [] d.arg_type = "string" ->
              IF HasArray(data, pos)
              THEN [push(DynArgument("string", 0, ArrayContents(data, pos) # <<>>,
                                     ArrayContents(data, pos), 0), AfterArray(data, pos))
                      EXCEPT !.padded = @ /\ ZeroPadded(data, pos)]
              ELSE io
         [] d.arg_type = "object" ->
              IF HasWord(data, pos)
              THEN push(DynArgument("object", read_u32(data, pos), read_u32(data, pos) # 0,
                                    <<>>, 0), pos + 4)
              ELSE io
         [] d.arg_type = "new_id" /\ d.interface # "none" ->
              IF HasWord(data, pos)
              THEN push(DynArgument("new_id", read_u32(data, pos), FALSE, <<>>, 0), pos + 4)
              ELSE io
         [] d.arg_type = "new_id" /\ d.interface = "none" ->
              \* next_new_id_anonymous: String::from_utf8(next_string()?.unwrap())
              \* .unwrap(), version, id
              IF ~HasArray(data, pos) THEN io
              ELSE IF ArrayContents(data, pos) = <<>> THEN [r EXCEPT !.kind = "panic"]
              ELSE IF ~from_utf8(ArrayContents(data, pos), 1) THEN [r EXCEPT !.kind = "panic"]
              ELSE IF ~HasWord(data, AfterArray(data, pos) + 4) THEN io
              ELSE [push(DynArgument("new_id", read_u32(data, AfterArray(data, pos) + 4), TRUE,
                                     ArrayContents(data, pos),
                                     read_u32(data, AfterArray(data, pos))),
                         AfterArray(data, pos) + 8)
                      EXCEPT !.padded = @ /\ ZeroPadded(data, pos)]
         [] d.arg_type = "array" ->
              IF HasArray(data, pos)
              THEN [push(DynArgument("array", 0, TRUE, ArrayContents(data, pos), 0),
                         AfterArray(data, pos))
                      EXCEPT !.padded = @ /\ ZeroPadded(data, pos)]
              ELSE io
         [] d.arg_type = "fd" ->
              IF r.next_fd < Len(fds)
              THEN [r EXCEPT !.args = Append(@, DynArgument("fd", fds[r.next_fd + 1], TRUE,
                                                            <<>>, 0)),
                             !.next_fd = @ + 1]
              ELSE [r EXCEPT !.kind = "InsufficientFds"]

\* DynMessage::parse_dyn_args over the bytes of RawMessage.data
RECURSIVE parse_args_from(_, _, _, _)
parse_args_from(args_desc, data, fds, r) ==
    IF args_desc = <<>> \/ r.kind # "ok" THEN r
    ELSE parse_args_from(Tail(args_desc), data, fds, parse_arg(Head(args_desc), data, fds, r))

DynMessage_parse_dyn_args(args_desc, data, fds) ==
    parse_args_from(args_desc, data, fds, RawMessageReader_new)

\* write_array inside serialize_raw_args: the bytes it appends
write_array(array) ==
    write_u32(Len(array)) \o array \o [i \in 1..Padding(Len(array)) |-> 0]

\* a length cast that never fails
array_never_too_long(array) == FALSE

\* u32::try_from(array.len()) fails
array_too_long(array) == Len(array) > ArrayLenMax

\* one iteration of the loop of DynMessage::serialize_raw_args; w is the
\* writer: kind is "ok", "ArrayTooLong" or "panic", data is buf, fds is fds
serialize_arg(arg, w) ==
    LET too_long(array) == array_too_long(array)
        put(bytes) == [w EXCEPT !.data = @ \o bytes]
        fail == [w EXCEPT !.kind = "ArrayTooLong"]
    IN CASE arg.t = "int" -> put(write_i32(arg.v))
         [] arg.t \in {"uint", "fixed"} -> put(write_u32(arg.v))
         [] arg.t = "string" ->
              IF ~arg.some THEN put(write_u32(0))
              ELSE IF too_long(arg.bytes) THEN fail
              ELSE put(write_array(arg.bytes))
         [] arg.t = "object" -> IF arg.some THEN put(write_u32(arg.v)) ELSE put(write_u32(0))
         [] arg.t = "new_id" ->
              IF ~arg.some THEN put(write_u32(arg.v))
              \* CString::new(name).unwrap() panics on a name that holds a nul
              ELSE IF \E i \in 1..Len(arg.bytes) : arg.bytes[i] = 0
                   THEN [w EXCEPT !.kind = "panic"]
              ELSE IF too_long(arg.bytes \o <<0>>) THEN fail
              ELSE put(write_array(arg.bytes \o <<0>>) \o write_u32(arg.v))
         [] arg.t = "array" ->
              IF too_long(arg.bytes) THEN fail ELSE put(write_array(arg.bytes))
         [] arg.t = "fd" -> [w EXCEPT !.fds = Append(@, arg.v)]

Writer_new == [kind |-> "ok", data |-> <<>>, fds |-> <<>>]

RECURSIVE serialize_from(_, _)
serialize_from(args, w) ==
    IF args = <<>> \/ w.kind # "ok" THEN w
    ELSE serialize_from(Tail(args), serialize_arg(Head(args), w))

\* DynMessage::serialize_raw_args
serialize_raw_args(args) == serialize_from(args, Writer_new)

\* into_raw that checks the length of the payload without the header
into_raw_without_header(sender, opcode, arguments) ==
    LET w == serialize_raw_args(arguments)
    IN IF w.kind # "ok" THEN [kind |-> w.kind, header |-> <<>>, data |-> <<>>, fds |-> <<>>]
       ELSE IF Len(w.data) > MsgSizeMax
            THEN [kind |-> "MessageTooLong", header |-> <<>>, data |-> <<>>, fds |-> <<>>]
       ELSE [kind |-> "ok",
             header |-> [sender |-> sender, opcode |-> opcode, msg_size |-> Len(w.data) + 8],
             data |-> w.data, fds |-> w.fds]

\* DynMessage::into_raw
into_raw(sender, opcode, arguments) ==
    LET w == serialize_raw_args(arguments)
    IN IF w.kind # "ok" THEN [kind |-> w.kind, header |-> <<>>, data |-> <<>>, fds |-> <<>>]
       ELSE IF Len(w.data) + 8 > MsgSizeMax
            THEN [kind |-> "MessageTooLong", header |-> <<>>, data |-> <<>>, fds |-> <<>>]
       ELSE [kind |-> "ok",
             header |-> [sender |-> sender, opcode |-> opcode, msg_size |-> Len(w.data) + 8],
             data |-> w.data, fds |-> w.fds]

\* no message in hand
WireIdle ==
    [phase |-> "idle", desc |-> <<>>, data |-> <<>>, fds |-> <<>>,
     r |-> RawMessageReader_new, w |-> Writer_new,
     args |-> <<>>, result |-> "none", msg_size |-> 0, out |-> <<>>, out_fds |-> <<>>]

(***************************************************************************)
(* The state machine.                                                      *)
(***************************************************************************)
VARIABLES clients, globals, next_name, objlog, calls, panic, accepted, sent, blocked,
          net, wire, next_serial, issued, ident

\* the process runs until a panic unwinds out of Server::run
running == panic = "none"

vars == <<clients, globals, next_name, objlog, calls, panic, accepted, sent, blocked,
          net, wire, next_serial, issued, ident>>

\* the connection, the message and the counter that the specifications of
\* single operations work on; issued lists the serials handed out, ident is
\* the name the generator converts
pure == <<net, wire, next_serial, issued, ident>>

\* the variables of the server loop
loop == <<clients, globals, next_name, objlog, calls, panic, accepted, sent, blocked>>

InitPure ==
    /\ net = [in_buffer |-> MessageBuffer_new, socket |-> <<>>, last |-> NoRead, writes |-> 0,
              out_buffer |-> MessageBuffer_new, peer |-> <<>>, queued |-> <<>>,
              result |-> "none", sends |-> 0]
    /\ wire = WireIdle
    /\ next_serial = 1
    /\ ident = [snake |-> <<>>, camel |-> <<>>, generated |-> FALSE]
    /\ issued = <<>>

\* panic is the message of a panic that is unwinding
State == [clients |-> clients, globals |-> globals, objlog |-> objlog, calls |-> calls,
          panic |-> "none"]

\* an accept that leaves wl_display with the dispatcher Object::new gave it
\* and the client without a display reference
try_accept_bare(s, cid, reads) ==
    LET uid == Len(s.objlog) + 1
    IN [s EXCEPT !.clients = Append(@, [cid |-> cid,
                                        objects |-> <<Object_new(uid, 1, "wl_display")>>,
                                        display |-> 0, registry |-> 0,
                                        in_buffer |-> <<>>, out_buffer |-> <<>>,
                                        socket |-> <<>>, writable |-> reads,
                                        hup |-> FALSE, pollin |-> TRUE, dropped |-> FALSE,
                                        borrowed |-> FALSE,
                                        states |-> 1, rejected |-> FALSE]),
                 !.objlog = Append(@, [cid |-> cid, id |-> 1, dtor |-> 0,
                                       freed |-> FALSE, intable |-> FALSE,
                                       handler |-> FALSE, destroys |-> 0])]

\* Client::new behind ClientManager::create_client and Server::try_accept;
\* states counts the calls of the state creator for the client: Client::new
\* gets () and set_state gets state_creator(handle)
try_accept(s, cid, reads) ==
    LET uid == Len(s.objlog) + 1
        display == [Object_new(uid, 1, "wl_display")
                      EXCEPT !.dispatcher = "WlDisplayImplementation"]
    IN [s EXCEPT !.clients = Append(@, [cid |-> cid, objects |-> <<display>>,
                                        display |-> uid, registry |-> 0,
                                        in_buffer |-> <<>>, out_buffer |-> <<>>,
                                        socket |-> <<>>, writable |-> reads,
                                        hup |-> FALSE, pollin |-> TRUE, dropped |-> FALSE,
                                        borrowed |-> FALSE,
                                        states |-> 1, rejected |-> FALSE]),
                 !.objlog = Append(@, [cid |-> cid, id |-> 1, dtor |-> 0,
                                       freed |-> FALSE, intable |-> FALSE,
                                       handler |-> FALSE, destroys |-> 0])]

\* a panic unwinds out of Server::run: every record is dropped as it is
RECURSIVE drop_objects(_, _)
drop_objects(s, ci) ==
    IF s.clients[ci].objects = <<>> THEN s
    ELSE drop_objects([Free(s, Head(s.clients[ci].objects))
                         EXCEPT !.clients[ci].objects = Tail(@)], ci)

RECURSIVE drop_clients(_)
drop_clients(s) ==
    IF s.clients = <<>> THEN s
    ELSE drop_clients([drop_objects(s, 1) EXCEPT !.clients = Tail(@)])

\* the route step of Server::dispatch for the polled event
route(s, ev) ==
    CASE ev.kind = "disconnected" -> [s |-> cleanup_client(s, ev.ci), ok |-> TRUE]
      [] ev.kind = "message" ->
            handle_client_message([s EXCEPT !.clients[ev.ci].in_buffer = Tail(@)], ev.ci,
                                  Head(s.clients[ev.ci].in_buffer))
      [] ev.kind = "error" -> [s |-> s, ok |-> FALSE]
      [] OTHER -> [s |-> s, ok |-> TRUE]

Install(s) ==
    /\ clients' = s.clients
    /\ globals' = s.globals
    /\ objlog' = s.objlog
    /\ calls' = s.calls

Init ==
    /\ clients = <<>>
    /\ globals = <<>>
    /\ next_name = 1
    /\ objlog = <<>>
    /\ calls = <<>>
    /\ panic = "none"
    /\ accepted = 0
    /\ sent = 0
    /\ blocked = 0
    /\ InitPure

\* what waits on the listening socket: nothing, or a client that reads what
\* it is sent
Connections == {"none", "reader"}

\* the end of one iteration: dispatch returned, or a panic unwinds out of
\* Server::run and the process ends with every client
unwind(s) ==
    /\ Install(IF s.panic # "none" THEN drop_clients(s) ELSE s)
    /\ panic' = s.panic

\* the destroy-pending sweep that follows a handled event
swept(r) == IF r.ok THEN destroy_pending(r.s) ELSE r.s

\* the rest of the iteration for the polled event
routed(s, ev) ==
    IF ev.kind = "panic" THEN [s EXCEPT !.panic = ev.why] ELSE swept(route(s, ev))

\* Server::dispatch: one iteration of the loop
dispatch(conn) ==
    /\ running
    /\ LET s0 == [State EXCEPT !.clients = flush_clients(@)]
           s1 == IF conn # "none" THEN try_accept(s0, accepted + 1, conn = "reader") ELSE s0
       IN unwind(routed(s1, poll_clients(s1.clients)))
    /\ accepted' = IF conn # "none" THEN accepted + 1 ELSE accepted
    /\ UNCHANGED <<next_name, sent>>

\* the globals the compositor registers, with their implementations
GlobalSet == {[interface |-> "wl_output", impl |-> "selfdestroy"],
              [interface |-> "wl_compositor", impl |-> "reaper"]}

\* GlobalManager::add_global behind Server::register_global
RECURSIVE advertise_global_to(_, _, _, _)
advertise_global_to(s, i, name, interface) ==
    IF i > Len(s.clients) THEN s
    ELSE advertise_global_to(advertise_global_dyn(s, i, name, interface), i + 1, name, interface)

register_global(interface, impl) ==
    /\ running
    /\ Len(globals) < MaxGlobals
    /\ ImplFits(interface, impl)
    /\ Install([advertise_global_to(State, 1, next_name, interface)
                  EXCEPT !.globals = Append(@, [name |-> next_name, interface |-> interface,
                                                impl |-> impl])])
    /\ next_name' = next_name + 1
    /\ UNCHANGED <<panic, accepted, sent>>

(***************************************************************************)
(* The peers.                                                              *)
(***************************************************************************)
\* requests to wl_display: sync and get_registry; an opcode the interface
\* does not have, and a header announcing fewer bytes than a header
DisplayFrames ==
    {Frame(1, 0, <<n>>) : n \in SyncIds}
    \cup {Frame(1, 1, <<n>>) : n \in RegistryIds}
    \cup {Frame(1, 2, <<>>), [Frame(1, 0, <<>>) EXCEPT !.msg_size = 4]}

\* wl_registry.bind(name, interface, version, id) sent to object 2
BindFrames ==
    {Frame(2, 0, <<g, 4, NameWord(i), 1, 3>>) : g \in 1..MaxGlobals, i \in GlobalInterfaces}

\* requests to object 3
UserFrames == {Frame(3, 0, <<>>), Frame(3, 0, <<4>>)}

FrameSet == DisplayFrames \cup BindFrames \cup UserFrames

\* a client writes one frame to its socket
client_send(ci, frame) ==
    /\ running
    /\ ~clients[ci].hup
    /\ clients[ci].in_buffer = <<>>
    /\ clients' = [clients EXCEPT ![ci].in_buffer = Append(@, frame)]
    /\ sent' = sent + 1
    /\ UNCHANGED <<globals, next_name, objlog, calls, panic, accepted>>

\* a client closes its connection
client_hangup(ci) ==
    /\ running
    /\ ~clients[ci].hup
    /\ clients' = [clients EXCEPT ![ci].hup = TRUE]
    /\ UNCHANGED <<globals, next_name, objlog, calls, panic, accepted, sent>>

\* the bounds on connections and frames
MayAccept(conn, max) == conn # "none" => accepted < max
MaySend(max) == sent < max

\* blocked counts loop iterations for SpecIterations only
Next ==
    /\ \/ \E conn \in Connections : MayAccept(conn, MaxClients) /\ dispatch(conn)
       \/ \E g \in GlobalSet : register_global(g.interface, g.impl)
       \/ \E ci \in 1..Len(clients), frame \in FrameSet :
             MaySend(MaxFrames) /\ client_send(ci, frame)
       \/ \E ci \in 1..Len(clients) : client_hangup(ci)
    /\ UNCHANGED <<blocked, pure>>

Spec == Init /\ [][Next]_vars

(***************************************************************************)
(* The compositor as it is usually started: every global is registered     *)
(* before Server::run, and the peers then talk to a fixed set of globals.  *)
(***************************************************************************)
CompositorGlobals ==
    <<[name |-> 1, interface |-> "wl_output", impl |-> "selfdestroy"],
      [name |-> 2, interface |-> "wl_compositor", impl |-> "reaper"]>>

CompositorFrames ==
    DisplayFrames \cup UserFrames
    \cup {Frame(2, 0, <<g, 4, NameWord(i), 1, 3>>) :
             g \in 1..Len(CompositorGlobals), i \in GlobalInterfaces}

InitCompositor ==
    /\ clients = <<>>
    /\ globals = CompositorGlobals
    /\ next_name = Len(CompositorGlobals) + 1
    /\ objlog = <<>>
    /\ calls = <<>>
    /\ panic = "none"
    /\ accepted = 0
    /\ sent = 0
    /\ blocked = 0
    /\ InitPure

NextCompositor ==
    /\ \/ \E conn \in Connections : MayAccept(conn, MaxPeers) /\ dispatch(conn)
       \/ \E ci \in 1..Len(clients), frame \in CompositorFrames :
             MaySend(MaxRequests) /\ client_send(ci, frame)
       \/ \E ci \in 1..Len(clients) : client_hangup(ci)
    /\ UNCHANGED <<blocked, pure>>

SpecCompositor == InitCompositor /\ [][NextCompositor]_vars

(***************************************************************************)
(* Properties.                                                             *)
(***************************************************************************)
\* everything the server has handed to the transport for a client, in order
Stream(c) == c.socket \o c.out_buffer

Count(seq, Test(_)) == Cardinality({i \in DOMAIN seq : Test(seq[i])})

\* the connected client a record belongs to, 0 when it is gone
ClientOf(uid) == Position(clients, LAMBDA c : c.cid = objlog[uid].cid)

\* C1: every object that was inserted and had a handler installed has had its
\* destructor handler invoked exactly once by the time its record is freed
C1_DestructorOnceBeforeFree ==
    \A uid \in DOMAIN objlog :
        objlog[uid].freed /\ objlog[uid].handler => objlog[uid].dtor = 1

\* C2: every object destroyed while its client is connected has produced
\* exactly one wl_display.delete_id event to that client
C2_OneDeleteIdPerDestroyed ==
    \A uid \in DOMAIN objlog :
        objlog[uid].freed /\ ClientOf(uid) # 0 =>
            Count(Stream(clients[ClientOf(uid)]),
                  LAMBDA e : e.ev = "delete_id" /\ e.about = uid) = 1

\* C3: in a client's stream nothing sent by an object comes after the
\* delete_id that reports this object
C3_DeleteIdAfterEvents ==
    \A ci \in DOMAIN clients :
        LET st == Stream(clients[ci])
        IN \A i \in DOMAIN st :
              st[i].ev = "delete_id" =>
                  \A j \in DOMAIN st : i < j => st[j].suid # st[i].about

\* a handler called destroy() and then sent an event: the event is in the
\* stream and the object's delete_id follows it
C3_Witness ==
    \E ci \in DOMAIN clients :
        LET st == Stream(clients[ci])
        IN \E j \in DOMAIN st :
              /\ st[j].ev = "delete_id"
              /\ \E i \in DOMAIN st : i < j /\ st[i].ev = "user" /\ st[i].suid = st[j].about

\* C4: the ids of the objects in a client's table are pairwise distinct
C4_IdsUniqueInTable ==
    \A ci \in DOMAIN clients :
        \A i, j \in DOMAIN clients[ci].objects :
            i # j => clients[ci].objects[i].id # clients[ci].objects[j].id

\* C5: no id is given to two objects of the same client over its lifetime
C5_IdsNeverReused ==
    \A u, v \in DOMAIN objlog :
        u # v /\ objlog[u].cid = objlog[v].cid => objlog[u].id # objlog[v].id

\* C6: no object is ever created under an id of the server-allocated range
C6_NoServerRangeId ==
    \A uid \in DOMAIN objlog : objlog[uid].id < ServerIdBase

\* C7: a client that issued get_registry has received exactly one
\* wl_registry.global event for every registered global
C7_OneGlobalEventPerGlobal ==
    \A ci \in DOMAIN clients :
        clients[ci].registry # 0 =>
            \A g \in DOMAIN globals :
                Count(Stream(clients[ci]),
                      LAMBDA e : e.ev = "global" /\ e.arg = globals[g].name) = 1

\* C8: at the end of a loop iteration no wl_callback created by sync is left
\* in a client's table
C8_CallbackSweptInSameIteration ==
    \A ci \in DOMAIN clients :
        \A i \in DOMAIN clients[ci].objects :
            clients[ci].objects[i].interface # "wl_callback"

\* C9: a global's constructor is invoked once per bound object, and while that
\* object lives its id resolves to it and it carries the global's interface
\* and implementation
C9_BindInstallsGlobal ==
    \A k \in DOMAIN calls :
        /\ \A l \in DOMAIN calls : calls[l].uid = calls[k].uid => l = k
        /\ ClientOf(calls[k].uid) # 0 =>
              LET objects == clients[ClientOf(calls[k].uid)].objects
                  p == ObjectMap_find_by_uid(objects, calls[k].uid)
                  g == Position(globals, LAMBDA x : x.name = calls[k].name)
              IN p # 0 =>
                    /\ ObjectMap_find_by_id(objects, objlog[calls[k].uid].id) = p
                    /\ objects[p].interface = globals[g].interface
                    /\ objects[p].dispatcher = globals[g].impl

\* C10: a frame whose header announces fewer than 8 bytes does not stop the
\* server
C10_ShortFrameKeepsServerRunning == panic # "size"

\* client i keeps failing to read while client j, behind it in the list, has a
\* complete request buffered and nobody in front of i has anything to handle
Blocks(cs, i, j) ==
    /\ i < j
    /\ j <= Len(cs)
    /\ \A k \in 1..(i - 1) : ~cs[k].hup /\ cs[k].in_buffer = <<>>
    /\ ~cs[i].hup /\ try_read_message(cs[i]) = "error"
    /\ ~cs[j].hup /\ try_read_message(cs[j]) = "message"

(***************************************************************************)
(* The loop with its iterations counted: blocked is the number of          *)
(* consecutive iterations of Server::run that left a blocked client        *)
(* waiting and changed nothing.  No global is registered.                  *)
(***************************************************************************)
SomeBlocked(cs) == \E i, j \in 1..Len(cs) : Blocks(cs, i, j)

IterationFrames == DisplayFrames \cup UserFrames

NextIterations ==
    \/ /\ \E conn \in Connections : MayAccept(conn, MaxClients) /\ dispatch(conn)
       /\ blocked' = IF SomeBlocked(clients) /\ clients' = clients
                     THEN (IF blocked < MaxBlocked THEN blocked + 1 ELSE blocked)
                     ELSE 0
       /\ UNCHANGED pure
    \/ /\ \E ci \in 1..Len(clients), frame \in IterationFrames :
             MaySend(MaxFrames) /\ client_send(ci, frame)
       /\ UNCHANGED <<blocked, pure>>
    \/ /\ \E ci \in 1..Len(clients) : client_hangup(ci)
       /\ UNCHANGED <<blocked, pure>>

SpecIterations == Init /\ [][NextIterations]_vars

\* C11: a client with a complete request buffered behind a client in a read
\* error waits at most one iteration per connected client
C11_ErrorDoesNotBlockOthers == blocked <= Len(clients)

\* C12: an object on which a handler called destroy() two or more times has,
\* once it is gone, had exactly one destructor run and exactly one delete_id
C12_DestroyIdempotent ==
    \A uid \in DOMAIN objlog :
        objlog[uid].destroys >= 2 /\ objlog[uid].freed /\ ClientOf(uid) # 0 =>
            /\ objlog[uid].dtor = 1
            /\ Count(Stream(clients[ClientOf(uid)]),
                     LAMBDA e : e.ev = "delete_id" /\ e.about = uid) = 1

\* C21: a connected client has, from its acceptance on and so before any of
\* its bytes is read, an object 1 of interface wl_display with the built-in
\* implementation, its display reference names that object, and its state
\* creator was called once
C21_DisplayFromAccept ==
    \A ci \in DOMAIN clients :
        LET c == clients[ci]
            p == ObjectMap_find_by_id(c.objects, 1)
        IN /\ p # 0
           /\ c.objects[p].interface = "wl_display"
           /\ c.objects[p].dispatcher = "WlDisplayImplementation"
           /\ c.display = c.objects[p].uid
           /\ c.states = 1

\* a client was accepted and no peer has written a byte yet
C21_Witness ==
    /\ Len(clients) = 1
    /\ sent = 0
    /\ clients[1].in_buffer = <<>>

\* C26: an object of a connected client whose destructor ran was still in
\* the client's table when it ran, and once it is gone its delete_id is in
\* the client's stream
C26_DestructorRunsInTable ==
    \A uid \in DOMAIN objlog :
        objlog[uid].dtor > 0 /\ ClientOf(uid) # 0 =>
            /\ objlog[uid].intable
            /\ objlog[uid].freed =>
                  \E i \in DOMAIN Stream(clients[ClientOf(uid)]) :
                      /\ Stream(clients[ClientOf(uid)])[i].ev = "delete_id"
                      /\ Stream(clients[ClientOf(uid)])[i].about = uid

\* C27: a client one of whose requests failed to parse against its schema
\* is no longer in the client list
C27_ParseErrorDisconnects ==
    \A ci \in DOMAIN clients : ~clients[ci].rejected

\* C29: a request with an opcode its target's interface does not define
\* leaves the server running
C29_UnknownOpcodeKeepsServerRunning == panic # "opcode"

\* C28: a frame whose sender is not in its client's table is examined in one
\* iteration only: the loop never spends two iterations in a row on the read
\* error of such a frame with the client still connected and its buffer as
\* it was
C28_MissingReceiverIsFatal == blocked <= 1

(***************************************************************************)
(* The sweep.  The compositor has one wl_compositor global; a surface is   *)
(* destroyed by the request that creates it, and its destructor destroys   *)
(* the wl_compositor resources the compositor knows of.                    *)
(***************************************************************************)
SweepGlobals == <<[name |-> 1, interface |-> "wl_compositor", impl |-> "factory"]>>

SweepFrames ==
    {Frame(1, 1, <<2>>), Frame(2, 0, <<1, 4, NameWord("wl_compositor"), 1, 3>>),
     Frame(3, 0, <<4>>)}

InitSweep ==
    /\ clients = <<>>
    /\ globals = SweepGlobals
    /\ next_name = Len(SweepGlobals) + 1
    /\ objlog = <<>>
    /\ calls = <<>>
    /\ panic = "none"
    /\ accepted = 0
    /\ sent = 0
    /\ blocked = 0
    /\ InitPure

NextSweep ==
    /\ \/ \E conn \in Connections : MayAccept(conn, MaxSweepPeers) /\ dispatch(conn)
       \/ \E ci \in 1..Len(clients), frame \in SweepFrames :
             MaySend(MaxSweepRequests) /\ client_send(ci, frame)
       \/ \E ci \in 1..Len(clients) : client_hangup(ci)
    /\ UNCHANGED <<blocked, pure>>

SpecSweep == InitSweep /\ [][NextSweep]_vars

\* C13: between two iterations, and so at the start of every route step, no
\* object in any client's table is destroy-pending
C13_NoPendingAtRoute ==
    \A ci \in 1..Len(clients) :
        \A p \in 1..Len(clients[ci].objects) : ~clients[ci].objects[p].destroy

(***************************************************************************)
(* Peers that keep sending.  blocked counts the consecutive iterations     *)
(* that routed the request of a client while a client behind it in the     *)
(* list had a complete request buffered.                                   *)
(***************************************************************************)
\* the iteration serves a client and leaves a later one with its request
Overtaken(cs, ev) ==
    /\ ev.kind = "message"
    /\ \E j \in (ev.ci + 1)..Len(cs) : try_read_message(cs[j]) = "message"

NextStarve ==
    \/ /\ \E conn \in Connections : MayAccept(conn, MaxClients) /\ dispatch(conn)
       /\ blocked' = IF Overtaken(clients, poll_clients(clients))
                     THEN (IF blocked < MaxBlocked THEN blocked + 1 ELSE blocked)
                     ELSE 0
       /\ UNCHANGED pure
    \/ /\ \E ci \in 1..Len(clients), frame \in {Frame(1, 0, <<3>>), Frame(1, 1, <<2>>)} :
             MaySend(MaxFrames + 1) /\ client_send(ci, frame)
       /\ UNCHANGED <<blocked, pure>>

SpecStarve == Init /\ [][NextStarve]_vars

\* C40: a complete request waits behind the requests of the clients in front
\* of it for fewer iterations than there are clients
C40_NoStarvation == blocked = 0 \/ blocked < Len(clients)

(***************************************************************************)
(* Peers that do not read.  A peer may connect without reading its socket, *)
(* so that what the server sends it is kept in the outbound buffer, and    *)
(* start reading later.                                                    *)
(***************************************************************************)
StalledConnections == Connections \cup {"stalled"}

StalledFrames == {Frame(1, 0, <<3>>), Frame(1, 1, <<2>>)}

\* the peer reads its socket again
client_resume(ci) ==
    /\ running
    /\ ~clients[ci].writable
    /\ clients' = [clients EXCEPT ![ci].writable = TRUE]
    /\ UNCHANGED <<globals, next_name, objlog, calls, panic, accepted, sent>>

NextStalled ==
    /\ \/ \E conn \in StalledConnections :
             MayAccept(conn, MaxStalledPeers) /\ dispatch(conn)
       \/ \E ci \in 1..Len(clients), frame \in StalledFrames :
             MaySend(MaxStalledRequests) /\ client_send(ci, frame)
       \/ \E ci \in 1..Len(clients) : client_hangup(ci)
       \/ \E ci \in 1..Len(clients) : client_resume(ci)
    /\ UNCHANGED <<blocked, pure>>

SpecStalled == InitCompositor /\ [][NextStalled]_vars

\* C14: no event is dropped for a client that is still in the client list
C14_NoEventDroppedWhileConnected ==
    \A ci \in 1..Len(clients) : ~clients[ci].dropped

\* the clients on which the flush step of an iteration made no flush attempt
\* that would have written something
Unflushed(cs) == {i \in 1..Len(cs) : flush_clients(cs)[i] # flush(cs[i]).c}

\* blocked is the number of clients the flush step of the last iteration
\* left out
NextFlushed ==
    \/ /\ \E conn \in StalledConnections :
             MayAccept(conn, MaxStalledPeers) /\ dispatch(conn)
       /\ blocked' = Cardinality(Unflushed(clients))
       /\ UNCHANGED pure
    \/ /\ \/ \E ci \in 1..Len(clients) :
                MaySend(MaxStalledRequests) /\ client_send(ci, Frame(1, 0, <<3>>))
          \/ \E ci \in 1..Len(clients) : client_hangup(ci)
          \/ \E ci \in 1..Len(clients) : client_resume(ci)
       /\ UNCHANGED <<blocked, pure>>

SpecFlushed == InitCompositor /\ [][NextFlushed]_vars

\* C34: the flush step of an iteration leaves out no client whose buffer a
\* flush would have written to its socket
C34_FlushReachesEveryClient == blocked = 0

(***************************************************************************)
(* Peers that hang up.  poll reports POLLHUP for a socket whose peer is    *)
(* gone, with POLLIN or, when nothing is left to read, without it.         *)
(* blocked counts the iterations that polled a hung-up client at the head  *)
(* of the list and left it connected.                                      *)
(***************************************************************************)
\* a client closes its connection and poll reports POLLHUP without POLLIN
client_hangup_quiet(ci) ==
    /\ running
    /\ ~clients[ci].hup
    /\ clients[ci].in_buffer = <<>>
    /\ clients' = [clients EXCEPT ![ci].hup = TRUE, ![ci].pollin = FALSE]
    /\ UNCHANGED <<globals, next_name, objlog, calls, panic, accepted, sent>>

\* the client at the head of the list hung up and is still there
HeadStays(before, after) ==
    /\ before # <<>> /\ after # <<>>
    /\ before[1].hup
    /\ after[1].cid = before[1].cid

NextHangup ==
    \/ /\ \E conn \in Connections : MayAccept(conn, MaxClients) /\ dispatch(conn)
       /\ blocked' = IF HeadStays(clients, clients')
                     THEN (IF blocked < MaxBlocked THEN blocked + 1 ELSE blocked)
                     ELSE 0
       /\ UNCHANGED pure
    \/ /\ \/ \E ci \in 1..Len(clients), frame \in {Frame(1, 0, <<3>>), Frame(1, 1, <<2>>)} :
                MaySend(MaxFrames) /\ client_send(ci, frame)
          \/ \E ci \in 1..Len(clients) : client_hangup(ci)
          \/ \E ci \in 1..Len(clients) : client_hangup_quiet(ci)
       /\ UNCHANGED <<blocked, pure>>

SpecHangup == InitCompositor /\ [][NextHangup]_vars

\* C35: a client that hung up is gone after the iteration that polls it
\* first, or after the next one
C35_HangupDisconnects == blocked < MaxBlocked

(***************************************************************************)
(* The inbound buffer.  A peer writes frames as long as they fit in the    *)
(* buffer; the header of a frame may announce more bytes than the buffer   *)
(* holds.  blocked counts the consecutive iterations that found a full     *)
(* buffer with an incomplete frame at its head and changed nothing.        *)
(***************************************************************************)
OverflowFrames ==
    {Frame(1, 0, <<3>>), Frame(1, 1, <<2>>),
     [Frame(1, 0, <<3>>) EXCEPT !.msg_size = InCap + 4]}

\* no further header fits and the frame at the head is not complete
Overflowed(c) ==
    /\ ~c.hup
    /\ c.in_buffer # <<>>
    /\ BufferedBytes(c.in_buffer) + 8 > InCap
    /\ Head(c.in_buffer).msg_size > BufferedBytes(c.in_buffer)

client_fill(ci, frame) ==
    /\ running
    /\ ~clients[ci].hup
    /\ BufferedBytes(clients[ci].in_buffer) + FrameBytes(frame) <= InCap
    /\ clients' = [clients EXCEPT ![ci].in_buffer = Append(@, frame)]
    /\ sent' = sent + 1
    /\ UNCHANGED <<globals, next_name, objlog, calls, panic, accepted>>

NextOverflow ==
    \/ /\ \E conn \in Connections : MayAccept(conn, MaxOverflowPeers) /\ dispatch(conn)
       /\ blocked' = IF (\E ci \in 1..Len(clients) : Overflowed(clients[ci]))
                        /\ clients' = clients
                     THEN (IF blocked < MaxBlocked THEN blocked + 1 ELSE blocked)
                     ELSE 0
       /\ UNCHANGED pure
    \/ /\ \E ci \in 1..Len(clients), frame \in OverflowFrames :
             MaySend(MaxOverflowFrames) /\ client_fill(ci, frame)
       /\ UNCHANGED <<blocked, pure>>
    \/ /\ \E ci \in 1..Len(clients) : client_hangup(ci)
       /\ UNCHANGED <<blocked, pure>>

SpecOverflow == Init /\ [][NextOverflow]_vars

\* C15: a client whose inbound buffer is full with an incomplete frame at its
\* head does not stay connected, iteration after iteration without a change,
\* for more iterations than there are clients
C15_OverflowDisconnects == blocked <= Len(clients)

(***************************************************************************)
(* Handlers.  The compositor registers four globals before it runs: a      *)
(* wl_output whose handler answers release with an event and leaves the    *)
(* destruction to the server, a wl_compositor that destroys every surface  *)
(* it creates and touches the resource of the last one it destroyed, a     *)
(* wl_compositor that reads its data through the typed and through the     *)
(* untyped resource, and a wl_compositor whose handler panics.             *)
(***************************************************************************)
HandlerGlobals ==
    <<[name |-> 1, interface |-> "wl_output", impl |-> "notifier"],
      [name |-> 2, interface |-> "wl_compositor", impl |-> "keeper"],
      [name |-> 3, interface |-> "wl_compositor", impl |-> "untyped"],
      [name |-> 4, interface |-> "wl_compositor", impl |-> "faulty"]>>

\* get_registry(2), bind(g, interface, 1, 3), and to object 3 release() or
\* create_surface(4)
HandlerFrames ==
    {Frame(1, 1, <<2>>), Frame(3, 0, <<>>), Frame(3, 0, <<4>>)}
    \cup {Frame(2, 0, <<g, 4, NameWord(HandlerGlobals[g].interface), 1, 3>>) :
             g \in 1..Len(HandlerGlobals)}

InitHandlers ==
    /\ clients = <<>>
    /\ globals = HandlerGlobals
    /\ next_name = Len(HandlerGlobals) + 1
    /\ objlog = <<>>
    /\ calls = <<>>
    /\ panic = "none"
    /\ accepted = 0
    /\ sent = 0
    /\ blocked = 0
    /\ InitPure

NextHandlers ==
    /\ \/ \E conn \in Connections : MayAccept(conn, MaxHandlerPeers) /\ dispatch(conn)
       \/ \E ci \in 1..Len(clients), frame \in HandlerFrames :
             MaySend(MaxHandlerRequests) /\ client_send(ci, frame)
       \/ \E ci \in 1..Len(clients) : client_hangup(ci)
    /\ UNCHANGED <<blocked, pure>>

SpecHandlers == InitHandlers /\ [][NextHandlers]_vars

\* C22: no operation through a resource whose object is gone panics
C22_DeadResourceNeverPanics == panic # "Object was destroyed"

\* C23: reading the data of an object as a type it was not registered with
\* does not panic
C23_DataMismatchIsAbsence == panic # "Data type mismatch"

\* C25: a wl_output whose release request, its only request and a declared
\* destructor, was dispatched is gone from the table at the end of the
\* iteration; the event of its handler in the stream tells that the request
\* was dispatched
C25_DestructorRequestDestroys ==
    \A ci \in DOMAIN clients :
        \A p \in DOMAIN clients[ci].objects :
            clients[ci].objects[p].interface = "wl_output" =>
                \A i \in DOMAIN Stream(clients[ci]) :
                    ~(/\ Stream(clients[ci])[i].ev = "user"
                      /\ Stream(clients[ci])[i].suid = clients[ci].objects[p].uid)

\* C30: a panic in a request handler leaves the server running
C30_HandlerPanicKeepsServerRunning == panic # "handler"

(***************************************************************************)
(* Objects without an implementation.  A peer binds a global name that is  *)
(* not registered, with an interface the server knows or with one it does  *)
(* not know, and then sends a request to the object it named.              *)
(***************************************************************************)
NextAnonymous ==
    /\ \/ \E conn \in Connections : MayAccept(conn, MaxPeers) /\ dispatch(conn)
       \/ \E ci \in 1..Len(clients),
             frame \in {Frame(1, 1, <<2>>), Frame(3, 0, <<>>),
                        Frame(2, 0, <<1, 4, NameWord("wl_output"), 1, 3>>),
                        Frame(2, 0, <<9, 4, NameWord("wl_output"), 1, 3>>),
                        Frame(2, 0, <<9, 4, NameWord("wl_seat"), 1, 3>>)} :
             MaySend(MaxRequests) /\ client_send(ci, frame)
       \/ \E ci \in 1..Len(clients) : client_hangup(ci)
    /\ UNCHANGED <<blocked, pure>>

SpecAnonymous == InitCompositor /\ [][NextAnonymous]_vars

\* C31: an iteration that polls a request addressed to an object without a
\* dispatcher leaves the server running
C31_AnonymousRejectsRequest ==
    [][LET ev == poll_clients(clients)
           c == clients[ev.ci]
           p == ObjectMap_find_by_id(c.objects, Head(c.in_buffer).sender)
       IN (running /\ ev.kind # "none" /\ ~c.hup /\ p # 0
             /\ c.objects[p].dispatcher = "none") => panic' = "none"]_vars

(***************************************************************************)
(* Handlers that look up objects.  The only global is a wl_output whose    *)
(* request handler and destructor handler call Client::find_by_id on the   *)
(* client of the resource.                                                 *)
(***************************************************************************)
InitSeeker ==
    /\ clients = <<>>
    /\ globals = <<[name |-> 1, interface |-> "wl_output", impl |-> "seeker"]>>
    /\ next_name = 2
    /\ objlog = <<>>
    /\ calls = <<>>
    /\ panic = "none"
    /\ accepted = 0
    /\ sent = 0
    /\ blocked = 0
    /\ InitPure

SpecSeeker == InitSeeker /\ [][NextAnonymous]_vars

\* C36: no handler finds the object table of its client borrowed
C36_TableFreeInHandlers == panic # "already mutably borrowed"

(***************************************************************************)
(* Reading one connection.  The client has a wl_display (id 1) and a       *)
(* wl_shm (id 2); its peer writes whole frames, pieces of frames and two   *)
(* frames at once, with the fds it likes.                                  *)
(***************************************************************************)
ReadObjects ==
    <<[Object_new(1, 1, "wl_display") EXCEPT !.dispatcher = "WlDisplayImplementation"],
      Object_new(2, 2, "wl_shm")>>

\* the header and the payload of a frame as the peer writes them
FrameData(sender, opcode, msg_size, payload) ==
    write_u32(sender) \o write_u16(opcode) \o write_u16(msg_size) \o payload

\* wl_display.sync(3)
SyncData == FrameData(1, 0, 12, write_u32(3))
\* wl_shm.create_pool(4, fd, 64)
CreatePoolData == FrameData(2, 0, 16, write_u32(4) \o write_u32(64))

ReadFrames ==
    {[data |-> SyncData, fds |-> <<>>],
     [data |-> SyncData, fds |-> <<9>>],
     [data |-> CreatePoolData, fds |-> <<7>>],
     [data |-> CreatePoolData, fds |-> <<>>],
     [data |-> FrameData(1, 1, 8, <<>>), fds |-> <<>>],
     [data |-> FrameData(1, 0, 4, <<>>), fds |-> <<>>],
     [data |-> FrameData(9, 0, 8, <<>>), fds |-> <<>>],
     [data |-> FrameData(1, 5, 8, <<>>), fds |-> <<>>]}

Chunks ==
    ReadFrames
    \cup {[data |-> SubSeq(f.data, 1, k), fds |-> f.fds] : f \in ReadFrames, k \in {4, 8}}
    \cup {[data |-> SubSeq(f.data, k + 1, Len(f.data)), fds |-> <<>>] :
             f \in {g \in ReadFrames : Len(g.data) > 8}, k \in {4, 8}}
    \cup {[data |-> CreatePoolData \o SyncData, fds |-> <<7, 9>>],
          [data |-> SyncData \o SyncData, fds |-> <<>>]}

\* the process has not panicked in a read
reading == net.last.kind \notin {"opcode", "size"}

\* one sendmsg of the peer
peer_write(chunk) ==
    /\ reading
    /\ net.writes < MaxWrites
    /\ net' = [net EXCEPT !.socket = Append(@, chunk), !.writes = @ + 1]

\* one call of NetClient::try_read_message by NetServer::poll_clients
net_read ==
    /\ reading
    /\ LET r == NetClient_try_read_message(net, ReadObjects)
       IN net' = [r.nc EXCEPT !.last = r.last]

NextRead ==
    /\ \/ \E chunk \in Chunks : peer_write(chunk)
       \/ net_read
    /\ UNCHANGED <<loop, wire, next_serial, issued, ident>>

SpecRead == Init /\ [][NextRead]_vars

\* C16: a returned message was read from a buffer that held at least its
\* msg_size bytes and its schema's fds; its msg_size is at least 8, its
\* payload is the size - 8 bytes after the header, its fds are exactly the
\* schema's count taken from the front, and the bytes and fds after them
\* stay buffered in their order
C16_ReadTakesOneFrame ==
    net.last.kind = "message" =>
        LET header == net.last.header
            at == net.last.at
            object == ReadObjects[ObjectMap_find_by_id(ReadObjects, header.sender)]
            n == expected_fds(Requests(object.interface)[header.opcode + 1])
        IN /\ Len(at.data) >= header.msg_size
           /\ Len(at.fds) >= n
           /\ header.msg_size >= 8
           /\ header = MessageHeader_from_bytes(SubSeq(at.data, 1, 8))
           /\ Len(net.last.data) = header.msg_size - 8
           /\ net.last.data = SubSeq(at.data, 9, header.msg_size)
           /\ net.last.fds = SubSeq(at.fds, 1, n)
           /\ net.in_buffer.data = SubSeq(at.data, header.msg_size + 1, Len(at.data))
           /\ net.in_buffer.fds = SubSeq(at.fds, n + 1, Len(at.fds))

\* a create_pool was returned with its fd while bytes and an fd of what
\* follows it stayed in the buffer
C16_Witness ==
    /\ net.last.kind = "message"
    /\ net.last.header.sender = 2
    /\ Len(net.last.fds) = 1
    /\ net.in_buffer.data # <<>>
    /\ net.in_buffer.fds # <<>>

(***************************************************************************)
(* The fds of one connection: the peer attaches up to MAX_FDS fds to a     *)
(* frame, whether its request takes an fd or not.                          *)
(***************************************************************************)
\* the fds one recvmsg takes
MAX_FDS == 8

NextFds ==
    /\ \/ \E data \in {SyncData, CreatePoolData}, n \in {0, 1, MAX_FDS} :
             peer_write([data |-> data, fds |-> [i \in 1..n |-> 6 + i]])
       \/ net_read
    /\ UNCHANGED <<loop, wire, next_serial, issued, ident>>

SpecFds == Init /\ [][NextFds]_vars

\* C37: the inbound buffer of a connection holds at most its capacity of
\* bytes and at most FD_BUFFER_SIZE fds
C37_BuffersBounded ==
    /\ Len(net.in_buffer.data) <= InCap
    /\ Len(net.in_buffer.fds) <= FD_BUFFER_SIZE

(***************************************************************************)
(* The codec on one message: a payload and its fds arrive for a request    *)
(* with a given schema, are parsed, and the arguments are serialized       *)
(* again.                                                                  *)
(***************************************************************************)
\* one schema per argument type, and the schemas of wl_registry.bind and of
\* wl_shm.create_pool
CodecSchemas ==
    {<<ArgOf(t)>> : t \in {"int", "uint", "fixed", "string", "object", "array", "fd"}}
    \cup {<<ArgNewId("wl_callback")>>, <<ArgNewId("none")>>}
    \cup {<<ArgNewId("wl_shm_pool"), ArgOf("fd"), ArgOf("int")>>}

\* the 32-bit words payloads are made of: small numbers, which are also
\* lengths, two letters with zero padding, and a letter with a padding byte
\* that is not zero
CodecWords ==
    {<<0, 0, 0, 0>>, <<1, 0, 0, 0>>, <<2, 0, 0, 0>>, <<4, 0, 0, 0>>, <<5, 0, 0, 0>>,
     <<97, 98, 0, 0>>, <<97, 0, 0, 7>>}

RECURSIVE Payloads(_)
Payloads(n) ==
    IF n = 0 THEN {<<>>}
    ELSE Payloads(n - 1) \cup {p \o word : p \in Payloads(n - 1), word \in CodecWords}

RECURSIVE FdLists(_)
FdLists(n) ==
    IF n = 0 THEN {<<>>}
    ELSE FdLists(n - 1) \cup {Append(l, 6 + Len(l)) : l \in FdLists(n - 1)}

\* wl_registry.bind(1, name, 1, 4) as the peer writes it
BindName(name) == write_u32(1) \o write_array(name) \o write_u32(1) \o write_u32(4)

\* wl_registry.bind(1, "ab\0", 1, 4)
BindData == BindName(<<97, 98, 0>>)

codec_receive(desc, data, fds) ==
    /\ wire.phase = "idle"
    /\ wire' = [WireIdle EXCEPT !.phase = "raw", !.desc = desc, !.data = data, !.fds = fds]

\* DynMessage::parse_dyn_args in Server::handle_client_message
codec_parse ==
    /\ wire.phase = "raw"
    /\ wire' = [wire EXCEPT !.phase = "parsed",
                            !.r = DynMessage_parse_dyn_args(wire.desc, wire.data, wire.fds)]

\* DynMessage::serialize_raw_args on what the parse returned
codec_serialize ==
    /\ wire.phase = "parsed"
    /\ wire.r.kind = "ok"
    /\ wire' = [wire EXCEPT !.phase = "serialized", !.w = serialize_raw_args(wire.r.args)]

NextCodec ==
    /\ \/ /\ wire.phase = "idle"
          /\ \E desc \in CodecSchemas, data \in Payloads(MaxCodecWords),
                fds \in FdLists(MaxCodecFds) : codec_receive(desc, data, fds)
       \* an int that is negative
       \/ \E data \in {<<255, 255, 255, 255>>, <<0, 0, 0, 128>>} :
             codec_receive(<<ArgOf("int")>>, data, <<>>)
       \* bind with the name "ab", with a Latin-1 name, with a name cut in the
       \* middle of a character, and with a null name
       \/ \E data \in {BindData, BindName(<<233, 0>>), BindName(<<226, 130, 0>>),
                        BindName(<<>>)} :
             codec_receive(<<ArgOf("uint"), ArgNewId("none")>>, data, <<>>)
       \/ codec_parse
       \/ codec_serialize
    /\ UNCHANGED <<loop, net, next_serial, issued, ident>>

SpecCodec == Init /\ [][NextCodec]_vars

\* C17: serializing the arguments parsed from a well-formed payload gives
\* back the bytes of the payload and its fds; a payload is well-formed when
\* the parse read all of it and every fd, and every padding byte was zero
C17_ParseSerializeRoundTrip ==
    LET WellFormed == /\ wire.r.kind = "ok"
                      /\ wire.r.padded
                      /\ wire.r.pos = Len(wire.data) + 1
                      /\ wire.r.next_fd = Len(wire.fds)
    IN wire.phase = "serialized" /\ WellFormed =>
           /\ wire.w.kind = "ok"
           /\ wire.w.data = wire.data
           /\ wire.w.fds = wire.fds

\* C38: parsing a wl_registry.bind request never panics, whatever the
\* bytes of its interface name are
C38_BindNameIsBytes ==
    wire.phase = "parsed" /\ wire.desc = <<ArgOf("uint"), ArgNewId("none")>> =>
        wire.r.kind # "panic"

(***************************************************************************)
(* Sending one event: Client::try_send_event turns the arguments into a    *)
(* raw message and hands it to the transport.  An argument vector has one  *)
(* array or string, alone or behind a uint or an fd, of any length up to   *)
(* the limits of msg_size and of the length word and just beyond them.     *)
(***************************************************************************)
SendLengths == (0..(MsgSizeMax + 2)) \cup ((ArrayLenMax - 1)..(ArrayLenMax + 1))

Bytes(n) == [i \in 1..n |-> 1]

SendArgs ==
    {<<DynArgument(t, 0, TRUE, Bytes(n), 0)>> : t \in {"array", "string"}, n \in SendLengths}
    \cup {<<DynArgument("uint", 7, TRUE, <<>>, 0), DynArgument("array", 0, TRUE, Bytes(n), 0)>> :
             n \in SendLengths}
    \cup {<<DynArgument("fd", 5, TRUE, <<>>, 0), DynArgument("array", 0, TRUE, Bytes(n), 0)>> :
             n \in SendLengths}
    \cup {<<>>, <<DynArgument("string", 0, FALSE, <<>>, 0)>>}

\* event.into_args in Client::try_send_event
event_into_args(args) ==
    /\ wire.phase = "idle"
    /\ wire' = [WireIdle EXCEPT !.phase = "args", !.args = args]

\* the rest of Client::try_send_event: into_raw()?, then try_send_message
Client_try_send_event ==
    /\ wire.phase = "args"
    /\ LET raw == into_raw(3, 0, wire.args)
       IN wire' = [wire EXCEPT
                      !.phase = "sent",
                      !.result = raw.kind,
                      !.msg_size = IF raw.kind = "ok" THEN raw.header.msg_size ELSE 0,
                      !.out = IF raw.kind = "ok"
                              THEN FrameData(raw.header.sender, raw.header.opcode,
                                             raw.header.msg_size, raw.data)
                              ELSE <<>>,
                      !.out_fds = IF raw.kind = "ok" THEN raw.fds ELSE <<>>]

NextSend ==
    /\ \/ \E args \in SendArgs : event_into_args(args)
       \/ Client_try_send_event
    /\ UNCHANGED <<loop, net, next_serial, issued, ident>>

SpecSend == Init /\ [][NextSend]_vars

\* C18: into_raw succeeds exactly when the payload and the 8 bytes of the
\* header are at most the largest msg_size; msg_size is then their sum, and
\* otherwise the call fails with MessageTooLong and the transport gets nothing
C18_IntoRawSizeLimit ==
    wire.phase = "sent" /\ serialize_raw_args(wire.args).kind = "ok" =>
        /\ wire.result = "ok" <=> Len(serialize_raw_args(wire.args).data) + 8 <= MsgSizeMax
        /\ wire.result = "ok" =>
              /\ wire.msg_size = Len(serialize_raw_args(wire.args).data) + 8
              /\ Len(wire.out) = wire.msg_size
        /\ wire.result # "ok" =>
              /\ wire.result = "MessageTooLong"
              /\ wire.out = <<>>
              /\ wire.out_fds = <<>>

\* the first payload that is too long was refused
C18_Witness ==
    /\ wire.phase = "sent"
    /\ wire.result = "MessageTooLong"
    /\ Len(serialize_raw_args(wire.args).data) + 8 = MsgSizeMax + 1

\* C19 as stated: an event with an array or string of the largest length a
\* length word holds is rejected with ArrayTooLong and nothing is written
C19_MaxLengthIsArrayTooLong ==
    LET HasArrayOfLen(n) == \E i \in 1..Len(wire.args) :
                                /\ wire.args[i].t \in {"array", "string"}
                                /\ wire.args[i].some
                                /\ Len(wire.args[i].bytes) = n
    IN wire.phase = "sent" /\ HasArrayOfLen(ArrayLenMax) =>
           wire.result = "ArrayTooLong" /\ wire.out = <<>>

\* C19 amended: an array or string longer than a length word can tell is
\* rejected with ArrayTooLong; one of exactly the largest length is
\* rejected with MessageTooLong; in both cases nothing is written
C19_TooLongRejected ==
    LET HasArrayOfLen(n) == \E i \in 1..Len(wire.args) :
                                /\ wire.args[i].t \in {"array", "string"}
                                /\ wire.args[i].some
                                /\ Len(wire.args[i].bytes) = n
    IN wire.phase = "sent" =>
           /\ HasArrayOfLen(ArrayLenMax + 1) =>
                 wire.result = "ArrayTooLong" /\ wire.out = <<>>
           /\ HasArrayOfLen(ArrayLenMax) =>
                 wire.result = "MessageTooLong" /\ wire.out = <<>>

\* an array of exactly the largest length was rejected by into_raw
C19_Witness ==
    /\ wire.phase = "sent"
    /\ \E i \in 1..Len(wire.args) :
          wire.args[i].t = "array" /\ Len(wire.args[i].bytes) = ArrayLenMax
    /\ wire.result = "MessageTooLong"
    /\ wire.out = <<>>

(***************************************************************************)
(* Serials.  The compositor calls Server::next_serial whenever it needs    *)
(* one.                                                                    *)
(***************************************************************************)
\* an addition that wraps around
wrapping_add(v) == [some |-> TRUE, v |-> (v + 1) % (SerialMax + 1)]

\* u32::checked_add(1)
checked_add(v) ==
    IF v = SerialMax THEN [some |-> FALSE, v |-> 0] ELSE [some |-> TRUE, v |-> v + 1]

\* Server::next_serial; expect("Serials exhausted") panics before the call
\* returns
Server_next_serial ==
    /\ running
    /\ IF checked_add(next_serial).some
       THEN /\ issued' = Append(issued, next_serial)
            /\ next_serial' = checked_add(next_serial).v
            /\ panic' = panic
       ELSE /\ panic' = "serial"
            /\ UNCHANGED <<next_serial, issued>>
    /\ UNCHANGED <<clients, globals, next_name, objlog, calls, accepted, sent, blocked,
                   net, wire, ident>>

SpecSerial == Init /\ [][Server_next_serial]_vars

\* C20: the i-th call of next_serial returned i: the first returned 1, each
\* later one the value before it plus 1, and none wrapped around
C20_SerialsIncrease ==
    /\ \A i \in 1..Len(issued) : issued[i] = i
    /\ panic = "serial" => next_serial = SerialMax

\* the range was used up and the next call panicked
C20_Witness ==
    /\ panic = "serial"
    /\ Len(issued) = SerialMax - 1

(***************************************************************************)
(* The generator's identifier conversion.  A string is the sequence of its *)
(* characters.                                                             *)
(***************************************************************************)
\* char::to_ascii_uppercase on the characters the names are drawn from
to_ascii_uppercase(c) ==
    CASE c = "a" -> "A"
      [] c = "b" -> "B"
      [] OTHER -> c

\* the names of at most n characters: lower-case and upper-case letters, a
\* digit and the underscore
Idents(n) ==
    UNION {[1..k -> {"a", "b", "B", "1", "_"}] : k \in 0..n}

\* snake_to_camel: the loop over snake.chars() with last_snake and buf
snake_to_camel(snake) ==
    LET RECURSIVE chars(_, _, _)
        chars(i, last_snake, buf) ==
            IF i > Len(snake) THEN buf
            ELSE LET c == snake[i]
                 IN chars(i + 1, <<c>>,
                          IF last_snake # <<>>
                          THEN IF c # "_"
                               THEN IF last_snake[1] = "_"
                                    THEN Append(buf, to_ascii_uppercase(c))
                                    ELSE Append(buf, c)
                               ELSE buf
                          ELSE Append(buf, to_ascii_uppercase(c)))
    IN chars(1, <<>>, <<>>)

\* the generator names one item of the protocol description
generate_name(snake) ==
    /\ ~ident.generated
    /\ ident' = [snake |-> snake, camel |-> snake_to_camel(snake), generated |-> TRUE]
    /\ UNCHANGED <<loop, net, wire, next_serial, issued>>

NextCamel == \E snake \in Idents(MaxIdentLen) : generate_name(snake)

SpecCamel == Init /\ [][NextCamel]_vars

\* C24: the converted name is the name's characters other than underscores,
\* in order, with the first character and every character that follows an
\* underscore upper-cased and the others unchanged, and it holds no underscore
C24_SnakeToCamel ==
    ident.generated =>
        LET snake == ident.snake
            RECURSIVE camel(_)
            camel(i) ==
                IF i > Len(snake) THEN <<>>
                ELSE IF snake[i] = "_" THEN camel(i + 1)
                ELSE <<IF i = 1 \/ snake[i - 1] = "_"
                       THEN to_ascii_uppercase(snake[i]) ELSE snake[i]>> \o camel(i + 1)
        IN /\ ident.camel = camel(1)
           /\ \A k \in 1..Len(ident.camel) : ident.camel[k] # "_"

(***************************************************************************)
(* Delivery of events.                                                     *)
(***************************************************************************)
\* C32: an iteration that routes a request to an object with a handler writes
\* to the peer's socket no more than what was queued before the iteration
C32_EventOnlyQueuedInHandler ==
    [][LET ev == poll_clients(clients)
           c == clients[ev.ci]
           p == ObjectMap_find_by_id(c.objects, Head(c.in_buffer).sender)
       IN (running /\ ev.kind = "message" /\ p # 0 /\ c.objects[p].dispatcher # "none"
             /\ Len(clients') >= ev.ci /\ clients'[ev.ci].cid = c.cid)
          => Len(clients'[ev.ci].socket) <= Len(c.socket) + Len(c.out_buffer)]_vars

(***************************************************************************)
(* Framed transport, outbound side, byte by byte.  out_buffer is the       *)
(* MessageBuffer of one connection, peer the bytes its socket took, queued *)
(* the frames of the events try_send_message accepted, in send order, and  *)
(* result what the last try_send_message returned.  room is the number of  *)
(* bytes the socket takes in one sendmsg: none is EAGAIN.                  *)
(***************************************************************************)
\* MessageBuffer::append
MessageBuffer_append_bytes(buf, data, fds) ==
    IF Len(buf.data) + Len(data) > OutBufCap \/ Len(buf.fds) + Len(fds) > FD_BUFFER_SIZE
    THEN [buf |-> buf, ok |-> FALSE]
    ELSE [buf |-> [data |-> buf.data \o data, fds |-> buf.fds \o fds], ok |-> TRUE]

\* what an append that followed a sendmsg makes of the call: Ok(false), or
\* the BufferFull that `?` returns
appended(nc, a) ==
    [nc |-> [nc EXCEPT !.out_buffer = a.buf], r |-> IF a.ok THEN "false" ELSE "BufferFull"]

\* NetClient::try_send_data: sendmsg returns 0 for no data, n > 0 for the
\* bytes it took, EAGAIN when it takes none
NetClient_try_send_data(nc, data, fds, room) ==
    IF data = <<>> THEN [nc |-> nc, r |-> "true"]
    ELSE IF room = 0 THEN appended(nc, MessageBuffer_append_bytes(nc.out_buffer, data, fds))
    ELSE IF Len(data) <= room
         THEN appended([nc EXCEPT !.peer = @ \o data],
                       MessageBuffer_append_bytes(nc.out_buffer, <<>>, <<>>))
         ELSE appended([nc EXCEPT !.peer = @ \o SubSeq(data, 1, room)],
                       MessageBuffer_append_bytes(nc.out_buffer,
                                                  SubSeq(data, room + 1, Len(data)), <<>>))

\* the loop of NetClient::flush: advance_all, then try_send_data
RECURSIVE flush_tries(_, _, _)
flush_tries(nc, rooms, tries) ==
    IF tries = 0 THEN [nc |-> nc, r |-> "false", rooms |-> rooms]
    ELSE LET t == NetClient_try_send_data([nc EXCEPT !.out_buffer = MessageBuffer_new],
                                          nc.out_buffer.data, nc.out_buffer.fds, Head(rooms))
         IN IF t.r = "false" THEN flush_tries(t.nc, Tail(rooms), tries - 1)
            ELSE [nc |-> t.nc, r |-> t.r, rooms |-> Tail(rooms)]

\* NetClient::flush
NetClient_flush(nc, rooms) ==
    IF nc.out_buffer = MessageBuffer_new THEN [nc |-> nc, r |-> "true", rooms |-> rooms]
    ELSE flush_tries(nc, rooms, FLUSH_TRIES)

\* the rest of try_send_message after its flush f
sent_after(f, data, fds) ==
    IF f.r = "BufferFull" THEN [nc |-> f.nc, r |-> "BufferFull"]
    ELSE IF f.r = "true" THEN NetClient_try_send_data(f.nc, data, fds, Head(f.rooms))
    ELSE appended(f.nc, MessageBuffer_append_bytes(f.nc.out_buffer, data, fds))

\* NetClient::try_send_message
NetClient_try_send_message(nc, data, fds, rooms) ==
    sent_after(NetClient_flush(nc, rooms), data, fds)

\* the frames of three events: a header, a header and a word, and a frame
\* that is longer than the buffer (msg_size goes up to 65535 in the code)
OutFrames ==
    {FrameData(3, 0, 8, <<>>), FrameData(3, 1, 12, write_u32(7)),
     FrameData(3, 2, OutBufCap + 8, Bytes(OutBufCap))}

\* what the socket takes in the three sendmsg calls of one try_send_message
Rooms == [1..(FLUSH_TRIES + 1) -> {0, 4, MsgSizeMax}]

\* the outcome r of a try_send_message recorded on the connection
recorded(r, data) ==
    [r.nc EXCEPT !.result = r.r, !.sends = @ + 1,
                 !.queued = IF r.r = "BufferFull" THEN @ ELSE @ \o data]

\* a handler sends an event
net_send(data, rooms) ==
    /\ net.sends < MaxSends
    /\ net' = recorded(NetClient_try_send_message(net, data, <<>>, rooms), data)

\* the flush step of an iteration
net_flush(rooms) ==
    /\ net.out_buffer # MessageBuffer_new
    /\ net' = [NetClient_flush(net, rooms).nc EXCEPT !.result = "none"]

NextOut ==
    /\ \/ \E data \in OutFrames, rooms \in Rooms : net_send(data, rooms)
       \/ \E rooms \in Rooms : net_flush(rooms)
    /\ UNCHANGED <<loop, wire, next_serial, issued, ident>>

SpecOut == Init /\ [][NextOut]_vars

\* C33: what the socket took, followed by what is buffered, is the frames
\* of the accepted events in send order
C33_BytesInSendOrder == net.peer \o net.out_buffer.data = net.queued

\* C39: a try_send_message that returns an error leaves on the socket and
\* in the buffer what was there before the call
C39_SendAllOrNothing ==
    [][net'.result = "BufferFull" =>
          net'.peer \o net'.out_buffer.data = net.peer \o net.out_buffer.data]_vars

====
